---- MODULE Spec2Model ----
(***************************************************************************)
(* A model of the NL-DB-Assistant MCP server: the query validator          *)
(* (queryValidator.js), the natural language processor (nlProcessor.js),   *)
(* the database connector (dbConnector.js) and the tool handlers of the    *)
(* server (index.js).  SQL and natural-language texts are strings; the     *)
(* regular expressions of the source are translated one by one into        *)
(* operators over the characters of the string.                            *)
(***************************************************************************)
EXTENDS Integers, Sequences, FiniteSets, Bags, TLC

(***************************************************************************)
(* Strings, as JavaScript's String methods use them.                       *)
(***************************************************************************)

\* s.substring(a-1, b) for 1-based inclusive positions; "" when a > b.
Sub(s, a, b) ==
    IF a > b \/ a > Len(s) \/ b < 1 THEN ""
    ELSE SubSeq(s, IF a < 1 THEN 1 ELSE a, IF b > Len(s) THEN Len(s) ELSE b)

\* s.charAt(i-1); "" outside the string.
Ch(s, i) ==
    IF i >= 1 /\ i <= Len(s) THEN SubSeq(s, i, i) ELSE ""

LowerLetters == "abcdefghijklmnopqrstuvwxyz"
UpperLetters == "ABCDEFGHIJKLMNOPQRSTUVWXYZ"
Digits == "0123456789"

CharSet(s) == {SubSeq(s, i, i) : i \in 1..Len(s)}

\* The characters \s matches, and String.prototype.trim removes.
WhiteSpace == {" ", "\t", "\n", "\r"}

\* The characters \w matches.
WordChars == CharSet(LowerLetters) \cup CharSet(UpperLetters) \cup CharSet(Digits) \cup {"_"}

UpperMap ==
    [c \in CharSet(LowerLetters) |->
        LET i == CHOOSE j \in 1..Len(LowerLetters) : SubSeq(LowerLetters, j, j) = c
        IN  SubSeq(UpperLetters, i, i)]

UpperCh(c) == IF c \in DOMAIN UpperMap THEN UpperMap[c] ELSE c

\* s.toUpperCase(), half by half.
RECURSIVE toUpperCase(_)
toUpperCase(s) ==
    IF Len(s) <= 1 THEN UpperCh(s)
    ELSE toUpperCase(SubSeq(s, 1, Len(s) \div 2))
            \o toUpperCase(SubSeq(s, Len(s) \div 2 + 1, Len(s)))

LowerMap ==
    [c \in CharSet(UpperLetters) |->
        LET i == CHOOSE j \in 1..Len(UpperLetters) : SubSeq(UpperLetters, j, j) = c
        IN  SubSeq(LowerLetters, i, i)]

LowerCh(c) == IF c \in DOMAIN LowerMap THEN LowerMap[c] ELSE c

\* s.toLowerCase(), half by half.
RECURSIVE toLowerCase(_)
toLowerCase(s) ==
    IF Len(s) <= 1 THEN LowerCh(s)
    ELSE toLowerCase(SubSeq(s, 1, Len(s) \div 2))
            \o toLowerCase(SubSeq(s, Len(s) \div 2 + 1, Len(s)))

Min(S) == CHOOSE x \in S : \A y \in S : x <= y

IsSpace(c) == c \in WhiteSpace
IsWordCh(c) == c \in WordChars

\* The first position >= i of s that holds no white space (Len(s)+1 if none): \s*.
SkipWs(s, i) ==
    IF i > Len(s) THEN i
    ELSE CHOOSE j \in i..(Len(s) + 1) :
            /\ ~IsSpace(Ch(s, j))
            /\ \A k \in i..(j - 1) : IsSpace(Ch(s, k))

\* The last position <= i of s that holds no white space (0 if none).
SkipWsBack(s, i) ==
    IF i < 1 THEN i
    ELSE CHOOSE j \in 0..i :
            /\ ~IsSpace(Ch(s, j))
            /\ \A k \in (j + 1)..i : IsSpace(Ch(s, k))

trim(s) == Sub(s, SkipWs(s, 1), SkipWsBack(s, Len(s)))

\* s holds the literal lit at position i.
LitAt(s, i, lit) ==
    /\ i >= 1
    /\ i + Len(lit) - 1 <= Len(s)
    /\ SubSeq(s, i, i + Len(lit) - 1) = lit

startsWith(s, lit) == LitAt(s, 1, lit)

endsWith(s, lit) == LitAt(s, Len(s) - Len(lit) + 1, lit)

includes(s, lit) == \E i \in 1..Len(s) : LitAt(s, i, lit)

\* \b at the gap before position p (1 <= p <= Len(s)+1).
WordBoundary(s, p) ==
    IsWordCh(Ch(s, p - 1)) # IsWordCh(Ch(s, p))

IsDigit(c) == c \in CharSet(Digits)

\* The characters . matches: all but the line terminators.
IsDot(c) == c # "" /\ c \notin {"\n", "\r"}

\* The last position of the run of word characters (\w+) that starts at k.
WordEnd(s, k) ==
    CHOOSE e \in k..Len(s) :
        /\ \A j \in k..e : IsWordCh(Ch(s, j))
        /\ ~IsWordCh(Ch(s, e + 1))

\* The last position of the run of digits (\d+) that starts at k.
DigitsEnd(s, k) ==
    CHOOSE e \in k..Len(s) :
        /\ \A j \in k..e : IsDigit(Ch(s, j))
        /\ ~IsDigit(Ch(s, e + 1))

\* The first of the literals lits, in their order, that s holds at position i
\* ("" if none): an alternation (?:a|b|c) whose alternatives exclude each other
\* or are tried in this order.
AltAt(s, i, lits) ==
    LET ok == SelectSeq(lits, LAMBDA l : LitAt(s, i, l))
    IN  IF ok = <<>> THEN "" ELSE ok[1]

\* The position of the first sep in s at or after i, 0 if there is none.
IndexOf(s, sep, i) ==
    LET at == {k \in i..Len(s) : LitAt(s, k, sep)}
    IN  IF at = {} THEN 0 ELSE Min(at)

\* s.split(sep) for a one-character separator.
RECURSIVE split(_, _)
split(s, sep) ==
    LET k == IndexOf(s, sep, 1)
    IN  IF k = 0 THEN <<s>>
        ELSE <<Sub(s, 1, k - 1)>> \o split(Sub(s, k + 1, Len(s)), sep)

\* texts.join(sep)
RECURSIVE JoinWith(_, _)
JoinWith(texts, sep) ==
    IF Len(texts) = 0 THEN ""
    ELSE IF Len(texts) = 1 THEN texts[1]
    ELSE texts[1] \o sep \o JoinWith(Tail(texts), sep)

(***************************************************************************)
(* The state.                                                              *)
(***************************************************************************)
VARIABLES
    config,       \* config.js: the settings read from the environment at load
    lastIndex,    \* QueryValidator: lastIndex of each RegExp of dangerousPatterns
    vinput,       \* validator harness: how the SQL text under validation is built
    vsql,         \* validator harness: the SQL text under validation
    voptions,     \* validator harness: the options of the call
    vverdict,     \* validator harness: what validate returned (NoVerdict before)
    probe,        \* validator harness: one earlier call, with what it returned
    calls,        \* validator harness: the number of validate calls so far
    nlInput,      \* translator harness: how the natural-language text is built
    nlText,       \* translator harness: the text handed to processQuery
    nlOutcome,    \* translator harness: what processQuery returned (NoTranslation before)
    phase,        \* index.js: how far start() has got
    nlSchema,     \* NaturalLanguageProcessor.schema
    schemaCache,  \* DatabaseConnector.schemaCache
    backend,      \* the database: its tables and their columns, as its catalog lists them
    inflight,     \* index.js: the bag of the requests being handled
    pool,         \* DatabaseConnector.pool / .db: "null", "open", or "ended" once released
    exitCode      \* <<>> while the process runs, <<code>> after process.exit(code)

translatorVars == <<nlInput, nlText, nlOutcome>>

harnessVars == <<vinput, vsql, voptions, vverdict, probe, calls, translatorVars>>

processVars == <<pool, exitCode>>

serverVars == <<phase, nlSchema, schemaCache, inflight, backend, processVars>>

vars == <<config, lastIndex, harnessVars, serverVars>>

(***************************************************************************)
(* queryValidator.js                                                       *)
(***************************************************************************)

\* this.destructiveKeywords
destructiveKeywords ==
    <<"DROP", "DELETE", "TRUNCATE", "ALTER", "CREATE", "GRANT", "REVOKE">>

\* this.dangerousPatterns: pattern.source of each, in the order of the array.
dangerousPatterns ==
    <<";\\s*DROP", ";\\s*DELETE", "--", "\\/\\*", "xp_", "exec\\s*\\(", "execute\\s*\\(">>

\* A slip in the patterns: each written with the g flag.
PatternIsGlobalAlways(k) == TRUE

\* Whether the k-th dangerous pattern carries the g (or y) flag: none does.
PatternIsGlobal(k) == FALSE

\* Where a match of the k-th dangerous pattern that starts at position i of s
\* ends (the position after its last character), 0 if none starts there.
\* up is s upper-cased, for the patterns with the i flag.
DangerousMatchEnd(k, s, up, i) ==
    CASE k = 1 ->
            IF Ch(s, i) = ";" /\ LitAt(up, SkipWs(s, i + 1), "DROP")
            THEN SkipWs(s, i + 1) + 4 ELSE 0
      [] k = 2 ->
            IF Ch(s, i) = ";" /\ LitAt(up, SkipWs(s, i + 1), "DELETE")
            THEN SkipWs(s, i + 1) + 6 ELSE 0
      [] k = 3 -> IF LitAt(s, i, "--") THEN i + 2 ELSE 0
      [] k = 4 -> IF LitAt(s, i, "/*") THEN i + 2 ELSE 0
      [] k = 5 -> IF LitAt(up, i, "XP_") THEN i + 3 ELSE 0
      [] k = 6 ->
            IF LitAt(up, i, "EXEC") /\ Ch(s, SkipWs(s, i + 4)) = "("
            THEN SkipWs(s, i + 4) + 1 ELSE 0
      [] k = 7 ->
            IF LitAt(up, i, "EXECUTE") /\ Ch(s, SkipWs(s, i + 7)) = "("
            THEN SkipWs(s, i + 7) + 1 ELSE 0

\* The end of the first match of the k-th dangerous pattern that starts at or
\* after position i, 0 if there is none.
DangerousSearch(k, s, up, i) ==
    LET FirstMatchEnd(starts) ==
            IF starts = {} THEN 0 ELSE DangerousMatchEnd(k, s, up, Min(starts))
    IN  FirstMatchEnd({j \in i..Len(s) : DangerousMatchEnd(k, s, up, j) > 0})

\* pattern.test(sql) for the k-th dangerous pattern whose lastIndex is li:
\* a pattern with the g flag searches from lastIndex and moves it, any other
\* searches from the start and leaves lastIndex alone.  Result(end) is what
\* test() returns and the lastIndex it leaves when the search found a match
\* ending before position end (0: none).
RegExpTest(k, s, up, li) ==
    LET Result(global, end) ==
            [matched   |-> end > 0,
             lastIndex |-> IF ~global THEN li ELSE IF end > 0 THEN end - 1 ELSE 0]
        SearchFrom(from) ==
            IF from > Len(s) THEN 0 ELSE DangerousSearch(k, s, up, from + 1)
    IN  Result(PatternIsGlobal(k), SearchFrom(IF PatternIsGlobal(k) THEN li ELSE 0))

\* sql.split(';').filter(s => s.trim().length > 0)
Statements(sql) ==
    SelectSeq(split(sql, ";"), LAMBDA st : Len(trim(st)) > 0)

MultipleStatementsIssue ==
    "Multiple SQL statements detected. Only single statements are allowed."

\* A slip in the count of statements: two statements pass.
HasMultipleStatementsOffByOne(sql) == Len(Statements(sql)) > 2

\* statements.length > 1
HasMultipleStatements(sql) == Len(Statements(sql)) > 1

\* checkSQLInjection(sql), up being sql upper-cased and li the lastIndex of
\* the patterns: an issue for each pattern found, in their order, then the
\* issue of the multiple statements.
checkSQLInjection(sql, up, li) ==
    LET Issues(found, multiple) ==
            [n \in DOMAIN found |->
                "Potentially dangerous pattern detected: " \o dangerousPatterns[found[n]]]
            \o (IF multiple THEN <<MultipleStatementsIssue>> ELSE <<>>)
        Result(issues) == [safe |-> issues = <<>>, issues |-> issues]
    IN  Result(Issues(SelectSeq([k \in DOMAIN dangerousPatterns |-> k],
                                LAMBDA k : RegExpTest(k, sql, up, li[k]).matched),
                      HasMultipleStatements(sql)))

\* lastIndex of the dangerous patterns after checkSQLInjection has tested them.
lastIndexAfter(sql, up, li) ==
    [k \in DOMAIN dangerousPatterns |-> RegExpTest(k, sql, up, li[k]).lastIndex]

NoOperation == "null"

\* checkDestructiveOperation(sql), up being sql upper-cased: the first of the
\* destructive keywords upperSQL starts with decides before the two checks
\* for a missing WHERE.
checkDestructiveOperation(up) ==
    LET Result(upperSQL, kws) ==
            IF kws # <<>>
            THEN [isDestructive |-> TRUE, operation |-> kws[1]]
            ELSE IF startsWith(upperSQL, "DELETE") /\ ~includes(upperSQL, "WHERE")
            THEN [isDestructive |-> TRUE, operation |-> "DELETE without WHERE clause"]
            ELSE IF startsWith(upperSQL, "UPDATE") /\ ~includes(upperSQL, "WHERE")
            THEN [isDestructive |-> TRUE, operation |-> "UPDATE without WHERE clause"]
            ELSE [isDestructive |-> FALSE, operation |-> NoOperation]
        StartingKeywords(upperSQL) ==
            SelectSeq(destructiveKeywords, LAMBDA kw : startsWith(upperSQL, kw))
    IN  Result(trim(up), StartingKeywords(trim(up)))

\* The alternatives of /\b(COUNT|SUM|AVG|MAX|MIN|GROUP BY)\b/gi, in their order.
AggregationWords == <<"COUNT", "SUM", "AVG", "MAX", "MIN", "GROUP BY">>

\* Where a match of a pattern of checkComplexity that starts at position i ends
\* (the position after its last character), 0 if none starts there.
ComplexityMatchEnd(r, s, up, i) ==
    CASE r = "joins" ->
            IF WordBoundary(s, i) /\ LitAt(up, i, "JOIN") /\ WordBoundary(s, i + 4)
            THEN i + 4 ELSE 0
      [] r = "subqueries" ->
            IF /\ Ch(s, i) = "("
               /\ LitAt(up, SkipWs(s, i + 1), "SELECT")
               /\ WordBoundary(s, SkipWs(s, i + 1) + 6)
            THEN SkipWs(s, i + 1) + 6 ELSE 0
      [] r = "aggregations" ->
            LET alts == SelectSeq(AggregationWords,
                            LAMBDA w : LitAt(up, i, w) /\ WordBoundary(s, i + Len(w)))
            IN  IF WordBoundary(s, i) /\ alts # <<>> THEN i + Len(alts[1]) ELSE 0
      [] r = "unions" ->
            IF WordBoundary(s, i) /\ LitAt(up, i, "UNION") /\ WordBoundary(s, i + 5)
            THEN i + 5 ELSE 0
      [] r = "likeWildcards" ->
            IF /\ LitAt(up, i, "LIKE")
               /\ SkipWs(s, i + 4) > i + 4
               /\ Ch(s, SkipWs(s, i + 4)) \in {"'", "\""}
               /\ Ch(s, SkipWs(s, i + 4) + 1) = "%"
            THEN SkipWs(s, i + 4) + 2 ELSE 0

\* The matches among those starting at starts that a global search from
\* position i finds: the leftmost, then the leftmost from where it ended, ...
RECURSIVE GlobalMatches(_, _, _, _, _)
GlobalMatches(r, s, up, starts, i) ==
    IF \A j \in starts : j < i THEN 0
    ELSE 1 + GlobalMatches(r, s, up, starts,
                ComplexityMatchEnd(r, s, up, Min({j \in starts : j >= i})))

\* (sql.match(/.../gi) || []).length
MatchCount(r, s, up, i) ==
    GlobalMatches(r, s, up,
        {j \in i..Len(s) : ComplexityMatchEnd(r, s, up, j) > 0}, i)

\* A slip in the weights: a subquery weighs as much as a JOIN.
ComplexityScoreFlatWeights(joinCount, subqueryCount, aggCount, unionCount, likeWildcards) ==
    joinCount * 10 + subqueryCount * 10 + aggCount * 5 + unionCount * 10
        + likeWildcards * 5 + 10

\* score, as checkComplexity adds it up.
ComplexityScore(joinCount, subqueryCount, aggCount, unionCount, likeWildcards) ==
    joinCount * 10 + subqueryCount * 15 + aggCount * 5 + unionCount * 10
        + likeWildcards * 5 + 10

\* checkComplexity(sql), up being sql upper-cased: { score, factors }.
checkComplexity(sql, up) ==
    LET Result(joinCount, subqueryCount, aggCount, unionCount, likeWildcards) ==
            [score   |-> ComplexityScore(joinCount, subqueryCount, aggCount,
                                         unionCount, likeWildcards),
             factors |-> [joins |-> joinCount, subqueries |-> subqueryCount,
                          aggregations |-> aggCount, unions |-> unionCount,
                          likeWildcards |-> likeWildcards]]
    IN  Result(MatchCount("joins", sql, up, 1),
               MatchCount("subqueries", sql, up, 1),
               MatchCount("aggregations", sql, up, 1),
               MatchCount("unions", sql, up, 1),
               MatchCount("likeWildcards", sql, up, 1))

\* The error and the warning of a destructive operation, and the warning of a
\* complexity above the limit.
DestructiveError(operation) ==
    "Destructive operation detected: " \o operation
        \o ". Set confirmDestructive=true to execute."

DestructiveWarning(operation) == "Destructive operation: " \o operation

ComplexityWarning(score, limit) ==
    "Query complexity (" \o ToString(score) \o ") exceeds recommended limit ("
        \o ToString(limit) \o ")"

\* A slip in the condition: either of the two settings refuses.
DestructiveRefusedEither(cfg, options) ==
    ~cfg.allowDestructiveQueries \/ ~options.confirmDestructive

\* !config.security.allowDestructiveQueries && !options.confirmDestructive
DestructiveRefused(cfg, options) ==
    ~cfg.allowDestructiveQueries /\ ~options.confirmDestructive

\* A slip in the verdict: a warning refuses the query as an error does.
AcceptedWithoutWarnings(errors, warnings) == Len(errors) = 0 /\ Len(warnings) = 0

\* valid: errors.length === 0
Accepted(errors, warnings) == Len(errors) = 0

\* A slip in the verdict: a complexity above the limit refuses the query.
VerdictUnlessComplex(errors, warnings, destructiveCheck, complexityCheck) ==
    [valid         |-> /\ Accepted(errors, warnings)
                       /\ \A n \in DOMAIN warnings :
                            ~startsWith(warnings[n], "Query complexity"),
     errors        |-> errors,
     warnings      |-> warnings,
     isDestructive |-> destructiveCheck.isDestructive,
     complexity    |-> complexityCheck.score]

\* The verdict validate returns after its checks.
Verdict(errors, warnings, destructiveCheck, complexityCheck) ==
    [valid         |-> Accepted(errors, warnings),
     errors        |-> errors,
     warnings      |-> warnings,
     isDestructive |-> destructiveCheck.isDestructive,
     complexity    |-> complexityCheck.score]

\* A slip in the test: a query of white space only is not taken for empty.
IsEmptyQueryUntrimmed(sql) == sql = ""

\* !sql || sql.trim().length === 0
IsEmptyQuery(sql) == sql = "" \/ Len(trim(sql)) = 0

\* validate(sql, options), with the configuration cfg and the dangerous
\* patterns' lastIndex li that it reads.  The verdict of an empty query has no
\* isDestructive and no complexity.  Errors and Warnings are the two lists
\* as validate fills them from its three checks, refused being the condition
\* under which a destructive operation is an error.
validate(sql, options, cfg, li) ==
    LET Errors(injectionCheck, destructiveCheck, refused) ==
            (IF ~injectionCheck.safe THEN injectionCheck.issues ELSE <<>>)
            \o (IF destructiveCheck.isDestructive /\ refused
                THEN <<DestructiveError(destructiveCheck.operation)>> ELSE <<>>)
        Warnings(destructiveCheck, complexityCheck, refused) ==
            (IF destructiveCheck.isDestructive /\ ~refused
             THEN <<DestructiveWarning(destructiveCheck.operation)>> ELSE <<>>)
            \o (IF complexityCheck.score > cfg.maxQueryComplexity
                THEN <<ComplexityWarning(complexityCheck.score, cfg.maxQueryComplexity)>>
                ELSE <<>>)
        Checked(injectionCheck, destructiveCheck, complexityCheck, refused) ==
            Verdict(Errors(injectionCheck, destructiveCheck, refused),
                    Warnings(destructiveCheck, complexityCheck, refused),
                    destructiveCheck, complexityCheck)
        Checks(up) ==
            Checked(checkSQLInjection(sql, up, li),
                    checkDestructiveOperation(up),
                    checkComplexity(sql, up),
                    DestructiveRefused(cfg, options))
    IN  IF IsEmptyQuery(sql)
        THEN [valid |-> FALSE, errors |-> <<"Query cannot be empty">>, warnings |-> <<>>]
        ELSE Checks(toUpperCase(sql))

\* The dangerous patterns' lastIndex after validate(sql, options): the empty
\* query returns before any pattern is tested.
validateLastIndex(sql, li) ==
    IF IsEmptyQuery(sql) THEN li
    ELSE lastIndexAfter(sql, toUpperCase(sql), li)

NoVerdict == [valid |-> FALSE, errors |-> <<>>, warnings |-> <<"not validated">>]

\* new QueryValidator(): every pattern's lastIndex is 0.
NewLastIndex == [k \in DOMAIN dangerousPatterns |-> 0]

(***************************************************************************)
(* nlProcessor.js: the patterns.  Every pattern carries the i flag and is  *)
(* applied to text processQuery has already lower-cased.                   *)
(***************************************************************************)

\* A capture group that took part in no match.
NoCapture == [from |-> 0, to |-> 0]

Captured(s, c) == Sub(s, c.from, c.to)

\* The first element of seq whose place is among ok, 0 if ok is empty.
PickOr0(seq, ok) == IF ok = {} THEN 0 ELSE seq[Min(ok)]

\* The first element of seq that is not 0, 0 if there is none.
FirstNonZero(seq) == PickOr0(seq, {n \in DOMAIN seq : seq[n] # 0})

\* Where the text after a \s+ that begins at p may begin, in the order the
\* RegExp tries them: after the whole run of white space first, then one
\* character less at a time.
AfterSpaces(s, p) ==
    LET DownFrom(next) == [n \in 1..(next - p) |-> next - n + 1]
    IN  DownFrom(SkipWs(s, p))

\* The last position of the run of . characters that starts at k (k-1 if none).
DotEnd(s, k) ==
    CHOOSE e \in (k - 1)..Len(s) :
        /\ \A j \in k..e : IsDot(Ch(s, j))
        /\ ~IsDot(Ch(s, e + 1))

\* The end of the lazy capture (.+?) that starts at from and is followed by a
\* match of EndsAt: the shortest one; 0 if there is none.
LazyEnd(s, from, EndsAt(_)) ==
    LET MinOr0(ends) == IF ends = {} THEN 0 ELSE Min(ends)
    IN  MinOr0({q \in from..DotEnd(s, from) : EndsAt(q + 1)})

\* The capture from the first of starts (in their order) that has one.
FirstCapture(s, starts, EndsAt(_)) ==
    LET CaptureFrom(from) == [from |-> from, to |-> LazyEnd(s, from, EndsAt)]
        FirstOf(ok) == IF ok = {} THEN NoCapture ELSE CaptureFrom(starts[Min(ok)])
    IN  FirstOf({n \in DOMAIN starts : LazyEnd(s, starts[n], EndsAt) # 0})

\* s.match(/HEAD(.+?)END/): the leftmost position at which HEAD matches with
\* some capture following it, StartsAt(i) being the places the capture may
\* start when HEAD is tried at i.
LeftmostCapture(s, StartsAt(_), EndsAt(_)) ==
    LET LeftmostOf(hits) ==
            IF hits = {} THEN NoCapture ELSE FirstCapture(s, StartsAt(Min(hits)), EndsAt)
    IN  LeftmostOf({i \in 1..Len(s) : FirstCapture(s, StartsAt(i), EndsAt) # NoCapture})

\* (?:\s+(?:k1|k2|...)|$) at position t.
KeywordOrEnd(s, t, keywords) ==
    \/ IsSpace(Ch(s, t)) /\ AltAt(s, SkipWs(s, t), keywords) # ""
    \/ t = Len(s) + 1

\* queryPatterns.filters.where
WhereCapture(s) ==
    LeftmostCapture(s,
        LAMBDA i : IF LitAt(s, i, "where") THEN AfterSpaces(s, i + Len("where")) ELSE <<>>,
        LAMBDA t : KeywordOrEnd(s, t, <<"and", "or", "order", "group", "limit">>))

\* word\s+by\s+ at i: where the capture after it may start.
AfterWordBy(s, i, word) ==
    LET AfterBy(a, b) ==
            IF b > a /\ LitAt(s, b, "by") THEN AfterSpaces(s, b + Len("by")) ELSE <<>>
    IN  IF LitAt(s, i, word) THEN AfterBy(i + Len(word), SkipWs(s, i + Len(word)))
        ELSE <<>>

\* queryPatterns.filters.orderBy
OrderByCapture(s) ==
    LeftmostCapture(s,
        LAMBDA i : AfterWordBy(s, i, "order"),
        LAMBDA t : KeywordOrEnd(s, t, <<"asc", "desc", "limit">>))

\* queryPatterns.filters.groupBy
GroupByCapture(s) ==
    LeftmostCapture(s,
        LAMBDA i : AfterWordBy(s, i, "group"),
        LAMBDA t : KeywordOrEnd(s, t, <<"having", "order", "limit">>))

\* \s+ after a cue that ends before p ("" for the cue: no match).
AfterCue(s, cue, p) == IF cue = "" THEN <<>> ELSE AfterSpaces(s, p + Len(cue))

\* /(?:set|to)\s+(.+?)(?:\s+where|$)/i
SetCapture(s) ==
    LeftmostCapture(s,
        LAMBDA i : AfterCue(s, AltAt(s, i, <<"set", "to">>), i),
        LAMBDA t : KeywordOrEnd(s, t, <<"where">>))

\* The run of digits that starts at k ("" for k = 0).
DigitsFrom(s, k) == IF k = 0 THEN "" ELSE Sub(s, k, DigitsEnd(s, k))

\* \s+(\d+) with the \s+ beginning at a and ending before k: where the digits
\* start, 0 without a match.
DigitsAfterSpaces(s, a, k) == IF k > a /\ IsDigit(Ch(s, k)) THEN k ELSE 0

\* limit\s+(\d+) at i: where the digits start, 0 without a match.
LimitAt(s, i) ==
    IF LitAt(s, i, "limit")
    THEN DigitsAfterSpaces(s, i + Len("limit"), SkipWs(s, i + Len("limit")))
    ELSE 0

\* queryPatterns.filters.limit: the digits captured ("" without a match).
LimitDigits(s) ==
    DigitsFrom(s, FirstNonZero([i \in 1..Len(s) |-> LimitAt(s, i)]))

\* (?:me\s+)?(.+?) at p: where the capture may start, the optional group
\* taken first.
AfterOptionalMe(s, p) ==
    (IF LitAt(s, p, "me") THEN AfterSpaces(s, p + Len("me")) ELSE <<>>) \o <<p>>

RECURSIVE Flatten(_)
Flatten(seqs) ==
    IF seqs = <<>> THEN <<>> ELSE Head(seqs) \o Flatten(Tail(seqs))

\* (?:me\s+)?(.+?) after each of the places in after.
AfterOptionalMeEach(s, after) ==
    Flatten([n \in DOMAIN after |-> AfterOptionalMe(s, after[n])])

\* /(?:show|get|select)\s+(?:me\s+)?(.+?)\s+(?:from|in)/i
ColumnsCapture(s) ==
    LeftmostCapture(s,
        LAMBDA i : AfterOptionalMeEach(s,
                        AfterCue(s, AltAt(s, i, <<"show", "get", "select">>), i)),
        LAMBDA t : IsSpace(Ch(s, t)) /\ AltAt(s, SkipWs(s, t), <<"from", "in">>) # "")

\* queryPatterns.conditions, in the order Object.entries lists them, each
\* with the alternatives of its cue in the order the RegExp tries them (an
\* optional last letter first with, then without it).  `in` and `between`
\* have no case in parseConditions and are left out.
conditionTypes == <<"equals", "notEquals", "greaterThan", "lessThan", "like">>

conditionCues ==
    [equals      |-> <<"is", "equals", "equal", "=">>,
     notEquals   |-> <<"is not", "not equals", "not equal", "!=", "<>">>,
     greaterThan |-> <<"greater than", ">">>,
     lessThan    |-> <<"less than", "<">>,
     like        |-> <<"contains", "contain", "like">>]

\* \s+(.+) at position a: where the greedy capture starts, the first of the
\* places after the \s+ that holds a . character, 0 without a match.
OperandStart(s, a) ==
    LET FirstDotOf(after) ==
            PickOr0(after, {n \in DOMAIN after : IsDot(Ch(s, after[n]))})
    IN  FirstDotOf(AfterSpaces(s, a))

\* \s+(?:cue1|cue2|...)\s+(.+) at position t: where the capture starts, 0
\* without a match.
CueOperand(s, t, cues) ==
    LET OperandAfter(k, ok) ==
            IF ok = {} THEN 0 ELSE OperandStart(s, k + Len(cues[Min(ok)]))
        CueOperandAt(k) ==
            OperandAfter(k, {n \in DOMAIN cues :
                                LitAt(s, k, cues[n]) /\ OperandStart(s, k + Len(cues[n])) # 0})
    IN  IF ~IsSpace(Ch(s, t)) THEN 0 ELSE CueOperandAt(SkipWs(s, t))

NoConditionMatch == [matched |-> FALSE, left |-> "", right |-> ""]

\* The end of (.+?) when the pattern of a condition is tried at i, 0 without a
\* match.
ConditionLazyEnd(s, cues, i) ==
    LazyEnd(s, i, LAMBDA t : CueOperand(s, t, cues) # 0)

\* conditionText.match(/(.+?)\s+(?:cues)\s+(.+)/i): match[1], from i to q, and
\* match[2], from o to the end of the line.
ConditionMatch(s, cues) ==
    LET Matched(i, q, o) ==
            [matched |-> TRUE, left |-> Sub(s, i, q), right |-> Sub(s, o, DotEnd(s, o))]
        From(i, q) == Matched(i, q, CueOperand(s, q + 1, cues))
        Among(hits) ==
            IF hits = {} THEN NoConditionMatch
            ELSE From(Min(hits), ConditionLazyEnd(s, cues, Min(hits)))
    IN  Among({i \in 1..Len(s) : ConditionLazyEnd(s, cues, i) # 0})

\* \s+unit after the digits that end before e.
UnitAfter(s, e, unit) == SkipWs(s, e) > e /\ LitAt(s, SkipWs(s, e), unit)

\* last\s+(\d+)\s+unit at i: where the digits start, 0 without a match.
LastNAt(s, i, unit) ==
    LET DigitsThenUnit(k) ==
            IF k # 0 /\ UnitAfter(s, DigitsEnd(s, k) + 1, unit) THEN k ELSE 0
    IN  IF LitAt(s, i, "last")
        THEN DigitsThenUnit(
                DigitsAfterSpaces(s, i + Len("last"), SkipWs(s, i + Len("last"))))
        ELSE 0

\* /last\s+(\d+)\s+days?/i and /last\s+(\d+)\s+hours?/i: the digits captured
\* ("" without a match).
LastNDigits(s, unit) ==
    DigitsFrom(s, FirstNonZero([i \in 1..Len(s) |-> LastNAt(s, i, unit)]))

\* /last\s+week/i.test(s), /last\s+month/i.test(s)
LastWord(s, word) ==
    \E i \in 1..Len(s) :
        /\ LitAt(s, i, "last")
        /\ SkipWs(s, i + Len("last")) > i + Len("last")
        /\ LitAt(s, SkipWs(s, i + Len("last")), word)

\* \s+(\w+) with the \s+ beginning at a and ending before k: where the word
\* starts, 0 without a match.
WordAfterSpaces(s, a, k) == IF k > a /\ IsWordCh(Ch(s, k)) THEN k ELSE 0

\* cue\s+(\w+) at i: where the word starts, 0 without a match.
WordAfterCue(s, i, cue) ==
    IF LitAt(s, i, cue)
    THEN WordAfterSpaces(s, i + Len(cue), SkipWs(s, i + Len(cue)))
    ELSE 0

\* /(?:from|in|into)\s+(\w+)/i tried at i: where the word captured starts, 0
\* without a match.
PrepositionCueAt(s, i) ==
    FirstNonZero(<<WordAfterCue(s, i, "from"), WordAfterCue(s, i, "in"),
                   WordAfterCue(s, i, "into")>>)

\* A slip in the pattern: the optional all is left out.
WordAfterOptionalAllSkipped(s, k) == IF IsWordCh(Ch(s, k)) THEN k ELSE 0

\* (?:all\s+)?(\w+) at k: where the word captured starts, 0 without a match.
WordAfterOptionalAll(s, k) ==
    FirstNonZero(<<WordAfterCue(s, k, "all"), IF IsWordCh(Ch(s, k)) THEN k ELSE 0>>)

\* /(?:show|get|find|list)\s+(?:all\s+)?(\w+)/i tried at i: where the word
\* captured starts, 0 without a match.
VerbCueAt(s, i) ==
    LET Object(a, k) == IF k > a THEN WordAfterOptionalAll(s, k) ELSE 0
        After(verb) ==
            IF verb = "" THEN 0 ELSE Object(i + Len(verb), SkipWs(s, i + Len(verb)))
    IN  After(AltAt(s, i, <<"show", "get", "find", "list">>))

\* The word that starts at k ("" for k = 0).
WordFrom(s, k) == IF k = 0 THEN "" ELSE Sub(s, k, WordEnd(s, k))

\* query.match(pattern)[1] for the two patterns of extractTableName ("" without
\* a match: \w+ captures no empty word).
CueWord(s, CueAt(_)) ==
    WordFrom(s, FirstNonZero([i \in 1..Len(s) |-> CueAt(i)]))

(***************************************************************************)
(* nlProcessor.js: NaturalLanguageProcessor.  schema is this.schema, a     *)
(* function from the table names to their columns; null and the empty      *)
(* string, which the code tests alike, are both "".                        *)
(***************************************************************************)
\* A slip in the detection: no kind for a text without a cue.
detectQueryTypeWithoutDefault(query) ==
    IF AltAt(query, 1, <<"count", "how many">>) # "" THEN "COUNT"
    ELSE IF AltAt(query, 1, <<"add", "insert", "create">>) # "" THEN "INSERT"
    ELSE IF AltAt(query, 1, <<"update", "change", "modify">>) # "" THEN "UPDATE"
    ELSE IF AltAt(query, 1, <<"delete", "remove">>) # "" THEN "DELETE"
    ELSE "UNKNOWN"

detectQueryType(query) ==
    IF AltAt(query, 1, <<"count", "how many">>) # "" THEN "COUNT"
    ELSE IF AltAt(query, 1, <<"add", "insert", "create">>) # "" THEN "INSERT"
    ELSE IF AltAt(query, 1, <<"update", "change", "modify">>) # "" THEN "UPDATE"
    ELSE IF AltAt(query, 1, <<"delete", "remove">>) # "" THEN "DELETE"
    ELSE "SELECT"

\* A slip in the variations: the plural is left out.
getTableVariationsWithoutPlural(name) ==
    <<name>>
    \o (IF endsWith(name, "s") THEN <<Sub(name, 1, Len(name) - 1)>> ELSE <<>>)

getTableVariations(name) ==
    <<name>>
    \o (IF ~endsWith(name, "s") THEN <<name \o "s">> ELSE <<>>)
    \o (IF endsWith(name, "s") THEN <<Sub(name, 1, Len(name) - 1)>> ELSE <<>>)

\* A slip in the resolution: a word no variation of which the schema has is
\* given up, as if no table had been found.
ResolveTableOrFail(tableName, schema) ==
    LET Known(variations, known) ==
            IF known = {} THEN "" ELSE variations[Min(known)]
        FirstKnown(variations) ==
            Known(variations, {n \in DOMAIN variations : variations[n] \in DOMAIN schema})
    IN  FirstKnown(getTableVariations(tableName))

\* The table a matched word resolves to: itself if the schema has it, else
\* the first of its variations the schema has, else itself.
ResolveTable(tableName, schema) ==
    LET Known(variations, known) ==
            IF known = {} THEN tableName ELSE variations[Min(known)]
        FirstKnown(variations) ==
            Known(variations, {n \in DOMAIN variations : variations[n] \in DOMAIN schema})
    IN  IF tableName \in DOMAIN schema THEN tableName
        ELSE FirstKnown(getTableVariations(tableName))

\* The first of the two patterns that matches decides; "" stands for the
\* throw of 'Could not identify table name in query'.
extractTableName(query, schema) ==
    LET TableOf(byPreposition, byVerb) ==
            IF byPreposition # "" THEN ResolveTable(byPreposition, schema)
            ELSE IF byVerb # "" THEN ResolveTable(byVerb, schema)
            ELSE ""
    IN  TableOf(CueWord(query, LAMBDA i : PrepositionCueAt(query, i)),
                CueWord(query, LAMBDA i : VerbCueAt(query, i)))

extractColumns(query) ==
    LET ColumnsOf(matched, columnPart) ==
            IF matched /\ columnPart # "all" /\ ~includes(columnPart, "*")
            THEN columnPart
            ELSE "*"
        ColumnsFrom(match) ==
            ColumnsOf(match # NoCapture, trim(Captured(query, match)))
    IN  ColumnsFrom(ColumnsCapture(query))

\* The cases of the switch of parseConditions.
ConditionSql(type, left, right) ==
    CASE type = "equals" -> left \o " = '" \o right \o "'"
      [] type = "notEquals" -> left \o " != '" \o right \o "'"
      [] type = "greaterThan" -> left \o " > " \o right
      [] type = "lessThan" -> left \o " < " \o right
      [] type = "like" -> left \o " LIKE '%" \o right \o "%'"

\* The first of the conditions, in their order, whose pattern matches decides.
parseConditions(conditionText) ==
    LET ConditionOf(type, match) ==
            ConditionSql(type, trim(match.left), trim(match.right))
        ParseAs(type) ==
            ConditionOf(type, ConditionMatch(conditionText, conditionCues[type]))
        ParseAmong(hits) ==
            IF hits = {} THEN conditionText ELSE ParseAs(conditionTypes[Min(hits)])
    IN  ParseAmong({n \in DOMAIN conditionTypes :
            ConditionMatch(conditionText, conditionCues[conditionTypes[n]]).matched})

extractTimeFilter(query) ==
    LET TimeFilter(lastNDays, lastNHours) ==
            IF includes(query, "today") THEN "DATE(created_at) = CURRENT_DATE"
            ELSE IF includes(query, "yesterday")
            THEN "DATE(created_at) = CURRENT_DATE - INTERVAL '1 day'"
            ELSE IF lastNDays # ""
            THEN "created_at >= NOW() - INTERVAL '" \o lastNDays \o " days'"
            ELSE IF lastNHours # ""
            THEN "created_at >= NOW() - INTERVAL '" \o lastNHours \o " hours'"
            ELSE IF LastWord(query, "week") THEN "created_at >= NOW() - INTERVAL '7 days'"
            ELSE IF LastWord(query, "month") THEN "created_at >= NOW() - INTERVAL '30 days'"
            ELSE ""
    IN  TimeFilter(LastNDigits(query, "day"), LastNDigits(query, "hour"))

\* A slip in the clause: the time filters are not looked for.
extractWhereClauseOnly(query) ==
    LET WhereOf(whereMatch) ==
            IF whereMatch # NoCapture THEN parseConditions(Captured(query, whereMatch))
            ELSE ""
    IN  WhereOf(WhereCapture(query))

extractWhereClause(query) ==
    LET WhereOf(whereMatch) ==
            IF whereMatch # NoCapture THEN parseConditions(Captured(query, whereMatch))
            ELSE extractTimeFilter(query)
    IN  WhereOf(WhereCapture(query))

extractGroupBy(query) == trim(Captured(query, GroupByCapture(query)))

extractOrderBy(query) == trim(Captured(query, OrderByCapture(query)))

extractLimit(query) == LimitDigits(query)

extractSetClause(query) ==
    LET SetClauseOf(match) ==
            IF match # NoCapture THEN trim(Captured(query, match)) ELSE "column = value"
    IN  SetClauseOf(SetCapture(query))

\* sql += ` KEYWORD ${clause}` when the clause is neither null nor empty.
Clause(keyword, clause) ==
    IF clause # "" THEN " " \o keyword \o " " \o clause ELSE ""

\* value || fallback
OrElse(value, fallback) == IF value # "" THEN value ELSE fallback

\* The generators are given the table extractTableName returned; a throw of
\* extractTableName leaves them before another line runs.
generateSelectQuery(query, tableName) ==
    "SELECT " \o OrElse(extractColumns(query), "*") \o " FROM " \o tableName
    \o Clause("WHERE", extractWhereClause(query))
    \o Clause("GROUP BY", extractGroupBy(query))
    \o Clause("ORDER BY", extractOrderBy(query))
    \o Clause("LIMIT", extractLimit(query))

generateCountQuery(query, tableName) ==
    LET CountSql(whereClause, groupBy) ==
            IF groupBy # ""
            THEN "SELECT " \o groupBy \o ", COUNT(*) as count FROM " \o tableName
                 \o Clause("WHERE", whereClause) \o " GROUP BY " \o groupBy
            ELSE "SELECT COUNT(*) as count FROM " \o tableName
                 \o Clause("WHERE", whereClause)
    IN  CountSql(extractWhereClause(query), extractGroupBy(query))

\* A slip in the placeholder: the trailing comment is left out.
generateInsertQueryWithoutComment(query, tableName) ==
    "INSERT INTO " \o tableName \o " (columns) VALUES (values)"

generateInsertQuery(query, tableName) ==
    "INSERT INTO " \o tableName
    \o " (columns) VALUES (values) -- Requires column and value specification"

generateUpdateQuery(query, tableName) ==
    "UPDATE " \o tableName \o " SET " \o extractSetClause(query)
    \o Clause("WHERE", extractWhereClause(query))

generateDeleteQuery(query, tableName) ==
    "DELETE FROM " \o tableName \o Clause("WHERE", extractWhereClause(query))

\* The values a caller passes for an argument: a string, or something else.
JsString(text) == [type |-> "string", value |-> text]
JsUndefined == [type |-> "undefined", value |-> ""]
JsNumber == [type |-> "number", value |-> "7"]

\* The message of the TypeError of naturalLanguage.trim() on a non-string.
TrimTypeError(v) ==
    IF v.type = "undefined" THEN "Cannot read properties of undefined (reading 'trim')"
    ELSE "naturalLanguage.trim is not a function"

TranslationFailure(message) ==
    [ok |-> FALSE, sql |-> "", type |-> "",
     error |-> "Failed to process natural language query: " \o message]

\* processQuery(naturalLanguage): what it resolves to (ok) or the message of
\* the Error it rejects with.  Generated is the switch over the query type.
processQuery(naturalLanguage, schema) ==
    LET Generated(queryType, normalized, tableName) ==
            CASE queryType = "SELECT" -> generateSelectQuery(normalized, tableName)
              [] queryType = "COUNT" -> generateCountQuery(normalized, tableName)
              [] queryType = "INSERT" -> generateInsertQuery(normalized, tableName)
              [] queryType = "UPDATE" -> generateUpdateQuery(normalized, tableName)
              [] queryType = "DELETE" -> generateDeleteQuery(normalized, tableName)
        Translated(queryType, normalized, tableName) ==
            IF queryType \notin {"SELECT", "COUNT", "INSERT", "UPDATE", "DELETE"}
            THEN TranslationFailure(
                    "Could not determine query type. Please rephrase your query.")
            ELSE IF tableName = ""
            THEN TranslationFailure("Could not identify table name in query")
            ELSE [ok |-> TRUE, sql |-> Generated(queryType, normalized, tableName),
                  type |-> queryType, error |-> ""]
        Process(normalized) ==
            Translated(detectQueryType(normalized), normalized,
                       extractTableName(normalized, schema))
    IN  IF naturalLanguage.type # "string"
        THEN TranslationFailure(TrimTypeError(naturalLanguage))
        ELSE Process(toLowerCase(trim(naturalLanguage.value)))

(***************************************************************************)
(* config.js                                                               *)
(***************************************************************************)

\* MAX_QUERY_COMPLEXITY when the environment does not set it.
DefaultMaxQueryComplexity == 100

\* The values of MAX_QUERY_COMPLEXITY the model runs with: the default, and 15,
\* which the score of a query with a JOIN or a subquery exceeds.
MaxQueryComplexityValues == {15, DefaultMaxQueryComplexity}

\* The security settings the validator reads.
SecurityConfigs ==
    [allowDestructiveQueries : BOOLEAN, maxQueryComplexity : MaxQueryComplexityValues]

\* DB_TYPE: the values validateConfig lets through.
validDbTypes == {"postgres", "mysql", "sqlite"}

\* config.database.name, which validateConfig requires for mysql.
DatabaseName == "appdb"

\* QUERY_TIMEOUT when the environment does not set it.
DefaultQueryTimeout == 30000

\* The settings the server runs with, each passing validateConfig.
Configs ==
    [type : validDbTypes,
     name : {DatabaseName},
     user : {"app"},
     path : {"./database.sqlite"},
     allowDestructiveQueries : BOOLEAN,
     maxQueryComplexity : MaxQueryComplexityValues,
     queryTimeout : {DefaultQueryTimeout},
     enableSchemaCache : BOOLEAN]

\* validateConfig(): the errors it collects; it throws when there is one.
validateConfig(cfg) ==
    (IF cfg.type \notin validDbTypes
     THEN <<"Invalid DB_TYPE: " \o cfg.type \o ". Must be one of: postgres, mysql, sqlite">>
     ELSE <<>>)
    \o (IF cfg.type # "sqlite"
        THEN (IF cfg.name = "" THEN <<"DB_NAME is required">> ELSE <<>>)
             \o (IF cfg.user = "" THEN <<"DB_USER is required">> ELSE <<>>)
        ELSE (IF cfg.path = "" THEN <<"DB_PATH is required for SQLite">> ELSE <<>>))
    \o (IF cfg.maxQueryComplexity < 1
        THEN <<"MAX_QUERY_COMPLEXITY must be greater than 0">> ELSE <<>>)
    \o (IF cfg.queryTimeout < 1000
        THEN <<"QUERY_TIMEOUT must be at least 1000ms">> ELSE <<>>)

(***************************************************************************)
(* dbConnector.js.  A schema is a function from table names to the names   *)
(* of their columns; a statement is what a driver call is handed.          *)
(***************************************************************************)

\* The tables of the database the server is connected to.
BackendTables ==
    [users |-> <<"id", "name">>, orders |-> <<"id", "status">>]

EmptySchema == [t \in {} |-> <<>>]

\* if (tableName): a non-empty string.
Truthy(v) == v.type = "number" \/ (v.type = "string" /\ v.value # "")

\* tableName || '__all__'
cacheKey(tableName) == IF Truthy(tableName) THEN tableName.value ELSE "__all__"

Statement(via, text, params) == [via |-> via, text |-> text, params |-> params]

\* The statements getPostgresSchema hands to executeQuery.
PostgresSchemaStatements(tableName) ==
    IF Truthy(tableName)
    THEN {Statement("pool.query",
            "SELECT table_name, column_name, data_type, is_nullable\n"
            \o "         FROM information_schema.columns\n"
            \o "         WHERE table_schema = 'public' AND table_name = $1\n"
            \o "         ORDER BY table_name, ordinal_position",
            <<tableName.value>>)}
    ELSE {Statement("pool.query",
            "SELECT table_name, column_name, data_type, is_nullable\n"
            \o "         FROM information_schema.columns\n"
            \o "         WHERE table_schema = 'public'\n"
            \o "         ORDER BY table_name, ordinal_position",
            <<>>)}

\* The statements getMySQLSchema hands to executeQuery.
MySQLSchemaStatements(tableName) ==
    IF Truthy(tableName)
    THEN {Statement("pool.execute",
            "SELECT TABLE_NAME as table_name, COLUMN_NAME as column_name, \n"
            \o "         DATA_TYPE as data_type, IS_NULLABLE as is_nullable\n"
            \o "         FROM information_schema.COLUMNS\n"
            \o "         WHERE TABLE_SCHEMA = ? AND TABLE_NAME = ?\n"
            \o "         ORDER BY TABLE_NAME, ORDINAL_POSITION",
            <<DatabaseName, tableName.value>>)}
    ELSE {Statement("pool.execute",
            "SELECT TABLE_NAME as table_name, COLUMN_NAME as column_name,\n"
            \o "         DATA_TYPE as data_type, IS_NULLABLE as is_nullable\n"
            \o "         FROM information_schema.COLUMNS\n"
            \o "         WHERE TABLE_SCHEMA = ?\n"
            \o "         ORDER BY TABLE_NAME, ORDINAL_POSITION",
            <<DatabaseName>>)}

\* The tables getSQLiteSchema describes: the one asked for, or those
\* sqlite_master lists.
SQLiteTables(tableName, tables) ==
    IF Truthy(tableName) THEN {tableName.value} ELSE DOMAIN tables

\* The statements getSQLiteSchema prepares: the table name is put into the
\* text of the PRAGMA as it came.
SQLiteSchemaStatements(tableName, tables) ==
    (IF Truthy(tableName) THEN {}
     ELSE {Statement("db.prepare", "SELECT name FROM sqlite_master WHERE type='table'", <<>>)})
    \cup {Statement("db.prepare", "PRAGMA table_info(" \o t \o ")", <<>>) :
            t \in SQLiteTables(tableName, tables)}

\* The statements getSchema(tableName) sends to the driver on a cache miss.
SchemaStatements(type, tableName, tables) ==
    CASE type = "postgres" -> PostgresSchemaStatements(tableName)
      [] type = "mysql" -> MySQLSchemaStatements(tableName)
      [] type = "sqlite" -> SQLiteSchemaStatements(tableName, tables)

\* formatSchemaResult(rows) for the rows the catalog query returns: the
\* columns of the table asked for, or of every table.
formatSchemaResult(tableName, tables) ==
    IF Truthy(tableName)
    THEN [t \in {tableName.value} \cap DOMAIN tables |-> tables[t]]
    ELSE tables

\* What getSQLiteSchema returns: an entry for each table it described, with
\* no column for a table the database does not have.
SQLiteSchema(tableName, tables) ==
    [t \in SQLiteTables(tableName, tables) |->
        IF t \in DOMAIN tables THEN tables[t] ELSE <<>>]

\* The schema getSchema(tableName) builds from what the driver returned.
SchemaResult(type, tableName, tables) ==
    IF type = "sqlite" THEN SQLiteSchema(tableName, tables)
    ELSE formatSchemaResult(tableName, tables)

\* getSchema: the cached schema is returned without a driver call.
CacheHit(cfg, cache, tableName) ==
    cfg.enableSchemaCache /\ cacheKey(tableName) \in DOMAIN cache

\* this.schemaCache.set(cacheKey, schema) when caching is enabled.
CacheAfter(cfg, cache, tableName, schema) ==
    IF cfg.enableSchemaCache
    THEN [k \in DOMAIN cache \cup {cacheKey(tableName)} |->
            IF k = cacheKey(tableName) THEN schema ELSE cache[k]]
    ELSE cache

\* A slip in executeSQLiteQuery: the statement is not trimmed.
isSelectUntrimmed(sql) == startsWith(toUpperCase(sql), "SELECT")

\* const isSelect = sql.trim().toUpperCase().startsWith('SELECT')
isSelect(sql) == startsWith(toUpperCase(trim(sql)), "SELECT")

\* The driver call of executeQuery(sql, params) for each backend; on sqlite
\* the prepared statement is read with all() or run with run().
ExecuteStatement(type, sql, params) ==
    CASE type = "postgres" -> Statement("pool.query", sql, params)
      [] type = "mysql" -> Statement("pool.execute", sql, params)
      [] type = "sqlite" ->
            Statement(IF isSelect(sql) THEN "stmt.all" ELSE "stmt.run", sql, params)

\* What executeSQLiteQuery makes of what the driver returned: the rows of
\* all() with their number, or no rows and the changes of run().
executeSQLiteQuery(sql, answer) ==
    IF ~answer.ok \/ isSelect(sql) THEN answer
    ELSE [answer EXCEPT !.rows = "", !.rowCount = answer.changes]

(***************************************************************************)
(* index.js: NLDBAssistantServer.  A request in flight is a record: where  *)
(* its handler stands (pc), the tool and arguments of the call, the locals *)
(* of the handler (translation, validation), the statements it has handed  *)
(* to the driver (sent) and the response once it has one.                  *)
(***************************************************************************)
Tools == {"query_database", "get_schema", "execute_sql", "validate_query"}

NoTranslation == [ok |-> FALSE, sql |-> "", type |-> "", error |-> "not translated"]

NoResponse == [isError |-> FALSE, text |-> "", schema |-> EmptySchema]

NewRequest(name, args) ==
    [pc |-> "received", tool |-> name, args |-> args, translation |-> NoTranslation,
     validation |-> NoVerdict, sent |-> {}, response |-> NoResponse]

\* A slip in the catch: the error is answered as an empty text.
ErrorResponseSwallowed(message) ==
    [isError |-> FALSE, text |-> "", schema |-> EmptySchema]

\* The catch of the CallTool handler.
ErrorResponse(message) ==
    [isError |-> TRUE, text |-> "Error: " \o message, schema |-> EmptySchema]

TextResponse(text) == [isError |-> FALSE, text |-> text, schema |-> EmptySchema]

\* The response of a handler whose validation failed; query_database adds the
\* SQL it generated.
ValidationFailedResponse(validation, generated) ==
    [isError |-> TRUE,
     text |-> "Query validation failed:\n" \o JoinWith(validation.errors, "\n") \o generated,
     schema |-> EmptySchema]

WarningsText(validation, before, after) ==
    IF Len(validation.warnings) > 0
    THEN before \o "Warnings:\n" \o JoinWith(validation.warnings, "\n") \o after
    ELSE ""

\* What the driver answers to a statement: rows, or an error.
RowsJson == "[\n  {\n    \"id\": 1\n  }\n]"

\* changes is info.changes of a statement that was run on sqlite.
DriverAnswers ==
    {[ok |-> TRUE, rowCount |-> 1, rows |-> RowsJson, changes |-> 2, error |-> ""],
     [ok |-> FALSE, rowCount |-> 0, rows |-> "", changes |-> 0, error |-> "driver error"]}

ResultsText(result, before) ==
    "Rows affected/returned: " \o ToString(result.rowCount) \o "\n"
    \o (IF result.rows # "" THEN before \o "Data:\n" \o result.rows ELSE "")

\* The SQL a request validates and executes.
RequestSql(req) ==
    IF req.tool = "query_database" THEN req.translation.sql ELSE req.args.sql

QueryDatabaseText(req, result) ==
    "Natural Language: " \o req.args.query.value \o "\n"
    \o "Generated SQL: " \o req.translation.sql \o "\n"
    \o "Query Type: " \o req.translation.type \o "\n\n"
    \o WarningsText(req.validation, "", "\n\n")
    \o "Results:\n"
    \o ResultsText(result, "\n")

ExecuteSQLText(req, result) ==
    "SQL: " \o req.args.sql \o "\n"
    \o WarningsText(req.validation, "\n", "\n")
    \o "\nResults:\n"
    \o ResultsText(result, "\n")

\* `${flag}` for a boolean.
BoolText(flag) == IF flag THEN "true" ELSE "false"

\* `${validation.isDestructive}` and `${validation.complexity}`: undefined in
\* the verdict of an empty query.
DestructiveText(validation) ==
    IF "isDestructive" \in DOMAIN validation THEN BoolText(validation.isDestructive)
    ELSE "undefined"

ComplexityText(validation) ==
    IF "complexity" \in DOMAIN validation THEN ToString(validation.complexity)
    ELSE "undefined"

ValidateQueryText(req, validation) ==
    "SQL: " \o req.args.sql \o "\n\n"
    \o "Valid: " \o BoolText(validation.valid) \o "\n"
    \o "Destructive: " \o DestructiveText(validation) \o "\n"
    \o "Complexity Score: " \o ComplexityText(validation) \o "\n\n"
    \o (IF Len(validation.errors) > 0
        THEN "Errors:\n" \o JoinWith(validation.errors, "\n") \o "\n\n" ELSE "")
    \o (IF Len(validation.warnings) > 0
        THEN "Warnings:\n" \o JoinWith(validation.warnings, "\n") \o "\n" ELSE "")

\* The head of the get_schema response; the schema it lists is kept as it is.
GetSchemaResponse(tableName, schema) ==
    [isError |-> FALSE,
     text |-> IF Truthy(tableName)
              THEN "Schema for table: " \o tableName.value \o "\n\n"
              ELSE "Database Schema:\n\n",
     schema |-> schema]

(***************************************************************************)
(* The tool calls the server is sent.                                      *)
(***************************************************************************)

\* The most requests in flight at once.
MaxRequests == 1

\* The `query` argument of query_database: a SELECT, a DELETE, an INSERT, a
\* text in which extractTableName finds no table, and no string at all.
NaturalLanguageInputs ==
    {JsString("show all users"), JsString("delete from users"),
     JsString("add a user into users"), JsString("count orders"), JsUndefined}

\* The `sql` argument of execute_sql and validate_query.
SqlInputs ==
    {"SELECT * FROM users", "DELETE FROM users WHERE id = 1",
     "SELECT 1; DROP TABLE users", "  select * FROM a JOIN b ON a.x = b.x", ""}

\* The `table_name` argument of get_schema.
TableNameInputs ==
    {JsUndefined, JsString("users"), JsString("users); DROP TABLE users; --")}

Arguments(query, sql, tableName, confirm) ==
    [query |-> query, sql |-> sql, table_name |-> tableName, confirm_destructive |-> confirm]

NoArguments == Arguments(JsUndefined, "", JsUndefined, FALSE)

ToolCalls ==
    {[name |-> "query_database", args |-> [NoArguments EXCEPT !.query = q, !.confirm_destructive = c]] :
        q \in NaturalLanguageInputs, c \in BOOLEAN}
    \cup {[name |-> "execute_sql", args |-> [NoArguments EXCEPT !.sql = s, !.confirm_destructive = c]] :
        s \in SqlInputs, c \in BOOLEAN}
    \cup {[name |-> "get_schema", args |-> [NoArguments EXCEPT !.table_name = t]] :
        t \in TableNameInputs}
    \cup {[name |-> "validate_query", args |-> [NoArguments EXCEPT !.sql = s]] : s \in SqlInputs}
    \cup {[name |-> "drop_database", args |-> NoArguments]}

(***************************************************************************)
(* index.js: the steps of the server.                                      *)
(***************************************************************************)
\* The request req of the bag of requests in flight replaced by next.
Replaced(req, next) == (inflight (-) SetToBag({req})) (+) SetToBag({next})

\* start() rejected: the catch of server.start() calls process.exit(1).
FatalError ==
    /\ phase' = "exited"
    /\ exitCode' = <<1>>

\* A slip in initialize(): the errors of validateConfig are not looked at.
ConfigRejectedNever(errors) == FALSE

\* if (errors.length > 0) throw
ConfigRejected(errors) == Len(errors) > 0

\* initialize() up to its first await: validateConfig() throws, or the
\* connector is built and connect() creates the pool (postgres, mysql) and
\* asks it for a connection, or opens the database file (sqlite), which
\* throws before or after the handle is kept.
Initialize ==
    /\ phase = "constructed"
    /\ IF ConfigRejected(validateConfig(config))
       THEN FatalError /\ UNCHANGED pool
       ELSE IF config.type = "sqlite"
       THEN \E outcome \in {"opened", "not opened", "pragma failed"} :
                /\ pool' = IF outcome = "not opened" THEN pool ELSE "open"
                /\ IF outcome = "opened"
                   THEN phase' = "connected" /\ UNCHANGED exitCode
                   ELSE FatalError
       ELSE /\ pool' = "open"
            /\ phase' = "connecting"
            /\ UNCHANGED exitCode
    /\ UNCHANGED <<config, lastIndex, nlSchema, schemaCache, inflight, backend, harnessVars>>

\* connectPostgres / connectMySQL after the await: the test query on a
\* connection of the pool was answered, or the error is thrown on.
ConnectReturns ==
    /\ phase = "connecting"
    /\ \E answer \in DriverAnswers :
        IF answer.ok THEN phase' = "connected" /\ UNCHANGED exitCode
        ELSE FatalError
    /\ UNCHANGED <<config, lastIndex, nlSchema, schemaCache, inflight, backend, pool, harnessVars>>

\* initialize(): getSchema() for all tables, then new NaturalLanguageProcessor.
LoadSchema ==
    /\ phase = "connected"
    /\ \E answer \in DriverAnswers :
        IF answer.ok
        THEN LET schema == SchemaResult(config.type, JsUndefined, backend)
             IN  /\ schemaCache' = CacheAfter(config, schemaCache, JsUndefined, schema)
                 /\ nlSchema' = schema
                 /\ phase' = "initialized"
                 /\ UNCHANGED exitCode
        ELSE /\ FatalError
             /\ UNCHANGED <<schemaCache, nlSchema>>
    /\ UNCHANGED <<config, lastIndex, inflight, backend, pool, harnessVars>>

\* start(): this.server.connect(transport).
ConnectTransport ==
    /\ phase = "initialized"
    /\ phase' = "running"
    /\ UNCHANGED <<config, lastIndex, nlSchema, schemaCache, inflight, backend, processVars, harnessVars>>

\* A tools/call request arrives on the transport while fewer than limit are
\* being handled: its handler is started without waiting for the others.
Arrives(name, args, limit) ==
    /\ phase = "running"
    /\ BagCardinality(inflight) < limit
    /\ inflight' = inflight (+) SetToBag({NewRequest(name, args)})
    /\ UNCHANGED <<config, lastIndex, phase, nlSchema, schemaCache, backend, processVars, harnessVars>>

Receive(name, args) == Arrives(name, args, MaxRequests)

\* handleQueryDatabase up to its first await: processQuery has run.
HandleQueryDatabase(req) ==
    /\ req.pc = "received" /\ req.tool = "query_database"
    /\ inflight' = Replaced(req,
            [req EXCEPT !.pc = "translated",
                        !.translation = processQuery(req.args.query, nlSchema)])
    /\ UNCHANGED <<config, lastIndex, phase, nlSchema, schemaCache, backend, processVars, harnessVars>>

\* A slip in the handlers: the verdict is not looked at.
RefusedNever(validation) == FALSE

\* if (!validation.valid)
Refused(validation) == ~validation.valid

\* A handler from validate on: the request is refused with the errors, or its
\* statement is handed to executeQuery.
ValidateThenExecute(req, generated) ==
    LET After(sql, validation) ==
            IF Refused(validation)
            THEN [req EXCEPT !.pc = "responded",
                             !.validation = validation,
                             !.response = ValidationFailedResponse(validation, generated)]
            ELSE [req EXCEPT !.pc = "executing",
                             !.validation = validation,
                             !.sent = {ExecuteStatement(config.type, sql, <<>>)}]
        Validate(sql) ==
            After(sql, validate(sql, [confirmDestructive |-> req.args.confirm_destructive],
                                config, lastIndex))
    IN  /\ lastIndex' = validateLastIndex(RequestSql(req), lastIndex)
        /\ inflight' = Replaced(req, Validate(RequestSql(req)))

\* A slip in the handler: the rejection of processQuery is swallowed.
TranslationRejectedNever(translation) == FALSE

\* await this.nlProcessor.processQuery(query) threw.
TranslationRejected(translation) == ~translation.ok

\* handleQueryDatabase after processQuery: its rejection leaves the handler
\* for the catch of the CallTool handler.
QueryDatabaseTranslated(req) ==
    /\ req.pc = "translated"
    /\ IF TranslationRejected(req.translation)
       THEN /\ inflight' = Replaced(req,
                    [req EXCEPT !.pc = "responded",
                                !.response = ErrorResponse(req.translation.error)])
            /\ UNCHANGED lastIndex
       ELSE ValidateThenExecute(req, "\n\nGenerated SQL: " \o req.translation.sql)
    /\ UNCHANGED <<config, phase, nlSchema, schemaCache, backend, processVars, harnessVars>>

\* handleExecuteSQL up to its await.
HandleExecuteSQL(req) ==
    /\ req.pc = "received" /\ req.tool = "execute_sql"
    /\ ValidateThenExecute(req, "")
    /\ UNCHANGED <<config, phase, nlSchema, schemaCache, backend, processVars, harnessVars>>

\* executeQuery returns or throws, and the handler with it.
ExecuteQueryReturns(req) ==
    LET Returned(result) ==
            [req EXCEPT !.pc = "responded",
                        !.response =
                            IF ~result.ok THEN ErrorResponse(result.error)
                            ELSE IF req.tool = "query_database"
                            THEN TextResponse(QueryDatabaseText(req, result))
                            ELSE TextResponse(ExecuteSQLText(req, result))]
    IN  /\ req.pc = "executing"
        /\ \E answer \in DriverAnswers :
            inflight' = Replaced(req,
                Returned(IF config.type = "sqlite"
                         THEN executeSQLiteQuery(RequestSql(req), answer)
                         ELSE answer))
        /\ UNCHANGED <<config, lastIndex, phase, nlSchema, schemaCache, backend, processVars, harnessVars>>

\* handleGetSchema up to its await: getSchema returns the cached schema, or
\* hands its statements to the driver.
HandleGetSchema(req) ==
    /\ req.pc = "received" /\ req.tool = "get_schema"
    /\ inflight' = Replaced(req,
            IF CacheHit(config, schemaCache, req.args.table_name)
            THEN [req EXCEPT !.pc = "responded",
                             !.response =
                                GetSchemaResponse(req.args.table_name,
                                    schemaCache[cacheKey(req.args.table_name)])]
            ELSE [req EXCEPT !.pc = "introspecting",
                             !.sent = SchemaStatements(config.type, req.args.table_name,
                                                       backend)])
    /\ UNCHANGED <<config, lastIndex, phase, nlSchema, schemaCache, backend, processVars, harnessVars>>

\* getSchema after the driver answered: the schema is cached and returned, or
\* the error is thrown on.
GetSchemaReturns(req) ==
    /\ req.pc = "introspecting"
    /\ \E answer \in DriverAnswers :
        IF answer.ok
        THEN LET schema == SchemaResult(config.type, req.args.table_name, backend)
             IN  /\ schemaCache' = CacheAfter(config, schemaCache, req.args.table_name, schema)
                 /\ inflight' = Replaced(req,
                        [req EXCEPT !.pc = "responded",
                                    !.response = GetSchemaResponse(req.args.table_name, schema)])
        ELSE /\ inflight' = Replaced(req,
                    [req EXCEPT !.pc = "responded",
                                !.response = ErrorResponse(answer.error)])
             /\ UNCHANGED schemaCache
    /\ UNCHANGED <<config, lastIndex, phase, nlSchema, backend, processVars, harnessVars>>

\* handleValidateQuery: validate(sql) with no options.
\* The options handleValidateQuery hands to validate: none, so that
\* confirmDestructive is undefined, which validate reads as false.
ValidateQueryOptionsFromArguments(args) == [confirmDestructive |-> args.confirm_destructive]
ValidateQueryOptions(args) == [confirmDestructive |-> FALSE]

HandleValidateQuery(req) ==
    LET Answered(validation) ==
            [req EXCEPT !.pc = "responded",
                        !.validation = validation,
                        !.response = TextResponse(ValidateQueryText(req, validation))]
    IN  /\ req.pc = "received" /\ req.tool = "validate_query"
        /\ inflight' = Replaced(req,
                Answered(validate(req.args.sql, ValidateQueryOptions(req.args),
                                  config, lastIndex)))
        /\ lastIndex' = validateLastIndex(req.args.sql, lastIndex)
        /\ UNCHANGED <<config, phase, nlSchema, schemaCache, backend, processVars, harnessVars>>

\* The default case of the CallTool handler.
HandleUnknownTool(req) ==
    /\ req.pc = "received" /\ req.tool \notin Tools
    /\ inflight' = Replaced(req,
            [req EXCEPT !.pc = "responded",
                        !.response = ErrorResponse("Unknown tool: " \o req.tool)])
    /\ UNCHANGED <<config, lastIndex, phase, nlSchema, schemaCache, backend, processVars, harnessVars>>

\* The response leaves on the transport.
Respond(req) ==
    /\ req.pc = "responded"
    /\ inflight' = inflight (-) SetToBag({req})
    /\ UNCHANGED <<config, lastIndex, phase, nlSchema, schemaCache, backend, processVars, harnessVars>>

(***************************************************************************)
(* The SQL texts handed to validate.                                       *)
(***************************************************************************)

\* A text is at most MaxPhrases of these, joined by single spaces.
Phrases ==
    <<"SELECT * FROM users", "DELETE FROM users", "WHERE id = 1", "drop table users",
      "UPDATE users SET a = 1", ";", ";SELECT 1", "-- x", "/* x */", "xp_cmdshell",
      "EXEC (", "execute(", " ", "\t\n", "TRUNCATE TABLE users", "Alter TABLE users",
      "CREATE TABLE t", "GRANT ALL", "REVOKE ALL">>

MaxPhrases == 2
MaxJoins == 3
MaxAggregations == 6
MaxRepeat == 1

\* Or it is a SELECT with a chosen number of each feature checkComplexity
\* counts, and, with decoys, words that only resemble them.
PhraseInputs ==
    [family : {"phrases"},
     phrases : UNION {[1..n -> DOMAIN Phrases] : n \in 0..MaxPhrases}]

FeatureInputs ==
    [family : {"features"}, joins : 0..MaxJoins, subqueries : 0..MaxRepeat,
     aggregations : 0..MaxAggregations, unions : 0..MaxRepeat,
     likeWildcards : 0..MaxRepeat, decoys : BOOLEAN]

\* The k-th occurrence of a feature, the odd ones in upper case.
FeatureText(f, k) ==
    CASE f = "joins" -> IF k % 2 = 1 THEN "JOIN b" ELSE "join c"
      [] f = "subqueries" -> IF k % 2 = 1 THEN "(SELECT 1)" ELSE "(  select 2)"
      [] f = "aggregations" ->
            <<"COUNT(*)", "sum(x)", "AVG(x)", "max(x)", "MIN(x)", "GROUP BY x">>[((k - 1) % 6) + 1]
      [] f = "unions" -> IF k % 2 = 1 THEN "UNION SELECT 1" ELSE "union select 2"
      [] f = "likeWildcards" -> IF k % 2 = 1 THEN "LIKE '%a'" ELSE "like \"%b\""

Decoys == "joins discount (selected) reunion LIKE 'a%' GROUPBY"

InputText(in) ==
    IF in.family = "phrases"
    THEN JoinWith([n \in DOMAIN in.phrases |-> Phrases[in.phrases[n]]], " ")
    ELSE JoinWith(
            <<"SELECT * FROM a">>
            \o [k \in 1..in.joins |-> FeatureText("joins", k)]
            \o [k \in 1..in.subqueries |-> FeatureText("subqueries", k)]
            \o [k \in 1..in.aggregations |-> FeatureText("aggregations", k)]
            \o [k \in 1..in.unions |-> FeatureText("unions", k)]
            \o [k \in 1..in.likeWildcards |-> FeatureText("likeWildcards", k)]
            \o (IF in.decoys THEN <<Decoys>> ELSE <<>>),
            " ")

(***************************************************************************)
(* The server: from construction to the tool calls it serves.              *)
(***************************************************************************)
NoProbe == [sql |-> "", options |-> [confirmDestructive |-> FALSE], verdict |-> NoVerdict, call |-> 0]

TranslatorIdle ==
    /\ nlInput = [verb |-> "", noun |-> "", tail |-> ""]
    /\ nlText = ""
    /\ nlOutcome = NoTranslation

HarnessIdle ==
    /\ TranslatorIdle
    /\ vinput = [family |-> "none"]
    /\ vsql = ""
    /\ voptions = [confirmDestructive |-> FALSE]
    /\ vverdict = NoVerdict
    /\ probe = NoProbe
    /\ calls = 0

\* new NLDBAssistantServer(): no connector and no translator yet.
ServerConstructed ==
    /\ phase = "constructed"
    /\ nlSchema = EmptySchema
    /\ schemaCache = [k \in {} |-> EmptySchema]
    /\ inflight = EmptyBag
    /\ backend = BackendTables
    /\ pool = "null"
    /\ exitCode = <<>>

Init ==
    /\ config \in Configs
    /\ lastIndex = NewLastIndex
    /\ ServerConstructed
    /\ HarnessIdle

Next ==
    \/ Initialize
    \/ ConnectReturns
    \/ LoadSchema
    \/ ConnectTransport
    \/ \E call \in ToolCalls : Receive(call.name, call.args)
    \/ \E req \in BagToSet(inflight) : HandleQueryDatabase(req)
    \/ \E req \in BagToSet(inflight) : QueryDatabaseTranslated(req)
    \/ \E req \in BagToSet(inflight) : HandleExecuteSQL(req)
    \/ \E req \in BagToSet(inflight) : ExecuteQueryReturns(req)
    \/ \E req \in BagToSet(inflight) : HandleGetSchema(req)
    \/ \E req \in BagToSet(inflight) : GetSchemaReturns(req)
    \/ \E req \in BagToSet(inflight) : HandleValidateQuery(req)
    \/ \E req \in BagToSet(inflight) : HandleUnknownTool(req)
    \/ \E req \in BagToSet(inflight) : Respond(req)

Spec == Init /\ [][Next]_vars

(***************************************************************************)
(* The schema requests: get_schema calls, handled while others are still   *)
(* waiting for the driver, against a database another process may alter.   *)
(***************************************************************************)

\* The most get_schema requests in flight at once.
MaxSchemaRequests == 2

\* The tables after another process has added a column to each.
AlteredTables ==
    [users |-> <<"id", "name", "email">>, orders |-> <<"id", "status", "total">>]

\* Another process alters the tables of the database, or alters them back.
AlterBackend ==
    /\ backend' \in {BackendTables, AlteredTables} \ {backend}
    /\ UNCHANGED <<config, lastIndex, phase, nlSchema, schemaCache, inflight, processVars, harnessVars>>

ReceiveGetSchema(tableName) ==
    Arrives("get_schema", [NoArguments EXCEPT !.table_name = tableName], MaxSchemaRequests)

NextSchema ==
    \/ Initialize
    \/ ConnectReturns
    \/ LoadSchema
    \/ ConnectTransport
    \/ AlterBackend
    \/ \E tableName \in TableNameInputs : ReceiveGetSchema(tableName)
    \/ \E req \in BagToSet(inflight) : HandleGetSchema(req)
    \/ \E req \in BagToSet(inflight) : GetSchemaReturns(req)
    \/ \E req \in BagToSet(inflight) : Respond(req)

SpecSchema == Init /\ [][NextSchema]_vars

(***************************************************************************)
(* The life of the process: start() under any settings of the environment, *)
(* the signals, and the requests served in between.                        *)
(***************************************************************************)

\* DatabaseConnector.close(): pool.end() or db.close() on what was created.
close(p) == IF p = "open" THEN "ended" ELSE p

\* cleanup(): if (this.dbConnector) await this.dbConnector.close(); the
\* connector is built once validateConfig() has passed.
cleanup(at, p) == IF at # "constructed" THEN close(p) ELSE p

\* The SIGINT and SIGTERM handlers: cleanup(), then process.exit(0).  The
\* handlers in flight end with the process.
Signal ==
    /\ phase # "exited"
    /\ pool' = cleanup(phase, pool)
    /\ phase' = "exited"
    /\ exitCode' = <<0>>
    /\ inflight' = EmptyBag
    /\ UNCHANGED <<config, lastIndex, nlSchema, schemaCache, backend, harnessVars>>

\* The settings of the environment: those that pass validateConfig, and one
\* for each of its errors.
LifecycleConfigs ==
    LET Passing == {c \in Configs : /\ ~c.allowDestructiveQueries
                                    /\ c.maxQueryComplexity = DefaultMaxQueryComplexity}
        Failing(c) == {[c EXCEPT !.type = "oracle"], [c EXCEPT !.name = ""],
                       [c EXCEPT !.user = ""], [c EXCEPT !.path = ""],
                       [c EXCEPT !.maxQueryComplexity = 0],
                       [c EXCEPT !.queryTimeout = 999]}
    IN  Passing \cup UNION {Failing(c) : c \in Passing}

\* The tool calls sent while the process lives: a get_schema, an
\* execute_sql, and validate_query calls, some with a confirm_destructive the
\* tool does not declare.
LifecycleCalls ==
    {call \in ToolCalls :
        \/ call.name = "get_schema" /\ call.args.table_name = JsUndefined
        \/ call.name = "execute_sql" /\ call.args.sql = "SELECT * FROM users"
                                     /\ ~call.args.confirm_destructive}
    \cup {[name |-> "validate_query",
           args |-> [NoArguments EXCEPT !.sql = s, !.confirm_destructive = c]] :
            s \in SqlInputs, c \in BOOLEAN}

InitLifecycle ==
    /\ config \in LifecycleConfigs
    /\ lastIndex = NewLastIndex
    /\ ServerConstructed
    /\ HarnessIdle

NextLifecycle ==
    \/ Initialize
    \/ ConnectReturns
    \/ LoadSchema
    \/ ConnectTransport
    \/ Signal
    \/ \E call \in LifecycleCalls : Receive(call.name, call.args)
    \/ \E req \in BagToSet(inflight) : HandleExecuteSQL(req)
    \/ \E req \in BagToSet(inflight) : ExecuteQueryReturns(req)
    \/ \E req \in BagToSet(inflight) : HandleGetSchema(req)
    \/ \E req \in BagToSet(inflight) : GetSchemaReturns(req)
    \/ \E req \in BagToSet(inflight) : HandleValidateQuery(req)
    \/ \E req \in BagToSet(inflight) : Respond(req)

SpecLifecycle == InitLifecycle /\ [][NextLifecycle]_vars

(***************************************************************************)
(* The statements of execute_sql on a backend that may never answer.       *)
(***************************************************************************)

\* The server takes the statement and sends no answer: the promise of
\* pool.query / pool.execute, created with no timeout, stays pending.
BackendStalls(req) ==
    /\ req.pc = "executing"
    /\ config.type # "sqlite"
    /\ inflight' = Replaced(req, [req EXCEPT !.pc = "unanswered"])
    /\ UNCHANGED <<config, lastIndex, phase, nlSchema, schemaCache, backend, processVars, harnessVars>>

ExecuteCalls == {call \in ToolCalls : call.name = "execute_sql"}

NextExecute ==
    \/ Initialize
    \/ ConnectReturns
    \/ LoadSchema
    \/ ConnectTransport
    \/ \E call \in ExecuteCalls : Receive(call.name, call.args)
    \/ \E req \in BagToSet(inflight) : HandleExecuteSQL(req)
    \/ \E req \in BagToSet(inflight) : ExecuteQueryReturns(req)
    \/ \E req \in BagToSet(inflight) : BackendStalls(req)
    \/ \E req \in BagToSet(inflight) : Respond(req)

\* The event loop runs every continuation that is ready: a handler whose
\* driver call can still be answered is resumed with the answer.
SpecExecute ==
    /\ Init
    /\ [][NextExecute]_vars
    /\ WF_vars(\E req \in BagToSet(inflight) : ExecuteQueryReturns(req))
    /\ WF_vars(\E req \in BagToSet(inflight) : Respond(req))

(***************************************************************************)
(* The validator called again and again: one QueryValidator, any calls.    *)
(***************************************************************************)

\* The most validate calls in a run.
MaxCalls == 3

\* The texts validate is called with: some match a dangerous pattern, once
\* or more than once.
RepeatTexts ==
    {"SELECT * FROM users", "DELETE FROM users", "SELECT 1; DROP TABLE users",
     "SELECT 1 -- a -- b", "exec (xp_cmdshell); Execute (x)", ""}

InitRepeat ==
    /\ config \in SecurityConfigs
    /\ lastIndex = NewLastIndex
    /\ ServerConstructed
    /\ HarnessIdle

\* validate(sql, options) on the validator the earlier calls used; one call of
\* the run is remembered in probe.
RepeatCall ==
    /\ calls < MaxCalls
    /\ calls' = calls + 1
    /\ \E sql \in RepeatTexts, confirm \in BOOLEAN :
        /\ vsql' = sql
        /\ voptions' = [confirmDestructive |-> confirm]
        /\ vverdict' = validate(sql, voptions', config, lastIndex)
        /\ lastIndex' = validateLastIndex(sql, lastIndex)
    /\ \/ probe' = probe
       \/ /\ probe = NoProbe
          /\ probe' = [sql |-> vsql', options |-> voptions', verdict |-> vverdict',
                       call |-> calls']
    /\ UNCHANGED <<config, vinput, translatorVars, serverVars>>

NextRepeat == RepeatCall

SpecRepeat == InitRepeat /\ [][NextRepeat]_vars

(***************************************************************************)
(* The validator on its own: one validate call on a fresh QueryValidator.  *)
(***************************************************************************)
InitValidate ==
    /\ config \in SecurityConfigs
    /\ lastIndex = NewLastIndex
    /\ vinput \in PhraseInputs \cup FeatureInputs
    /\ vsql = InputText(vinput)
    /\ voptions = [confirmDestructive |-> FALSE]
    /\ vverdict = NoVerdict
    /\ probe = NoProbe
    /\ calls = 0
    /\ TranslatorIdle
    /\ ServerConstructed

ValidateCall ==
    /\ vverdict = NoVerdict
    /\ \E confirm \in BOOLEAN :
        /\ voptions' = [confirmDestructive |-> confirm]
        /\ vverdict' = validate(vsql, voptions', config, lastIndex)
    /\ lastIndex' = validateLastIndex(vsql, lastIndex)
    /\ calls' = calls + 1
    /\ UNCHANGED <<config, vinput, vsql, probe, translatorVars, serverVars>>

NextValidate == ValidateCall

SpecValidate == InitValidate /\ [][NextValidate]_vars

(***************************************************************************)
(* The translator on its own: one processQuery call on a processor built   *)
(* with the schema getSchema() returned.                                   *)
(***************************************************************************)

\* The schemas the processor is built with: the tables of the backend, a
\* database whose tables carry singular names, and one whose names are in
\* mixed case or hold the word of a time filter.
SingularTables == [user |-> <<"id", "email">>, address |-> <<"id", "city">>]

MixedTables == [Orders |-> <<"id", "status">>, today_sales |-> <<"id">>]

TranslatorSchemas == {BackendTables, SingularTables, MixedTables}

\* A text is a verb, a noun and a tail, joined by single spaces.
Verbs ==
    {"show all", "Show me all", "show", "get", "find", "list", "Count", "how many",
     "delete", "remove", "add", "Insert", "update", "change", "recount"}

Nouns ==
    {"users", "user", "orders", "address", "addres", "Orders", "today_sales",
     "customers", "email", "id, name"}

Tails ==
    {"", "from users", "in orders", "from customers", "by status", "grouped by status",
     "from orders group by status", "created in the last 7 days",
     "from users last 30 days", "from users today last 7 days",
     "from orders where status is open last 7 days", "for the last 2 days",
     "from users where status is not open", "from users where name not equals bob",
     "from users where id != 5", "from users where id <> 5"}

TranslatorInputs == [verb : Verbs, noun : Nouns, tail : Tails]

NlText(in) ==
    in.verb \o " " \o in.noun \o (IF in.tail = "" THEN "" ELSE " " \o in.tail)

InitTranslate ==
    /\ config \in {c \in SecurityConfigs : c.maxQueryComplexity = DefaultMaxQueryComplexity
                                            /\ ~c.allowDestructiveQueries}
    /\ lastIndex = NewLastIndex
    /\ vinput = [family |-> "none"]
    /\ vsql = ""
    /\ voptions = [confirmDestructive |-> FALSE]
    /\ vverdict = NoVerdict
    /\ probe = NoProbe
    /\ calls = 0
    /\ nlInput \in TranslatorInputs
    /\ nlText = NlText(nlInput)
    /\ nlOutcome = NoTranslation
    /\ phase = "constructed"
    /\ nlSchema \in TranslatorSchemas
    /\ schemaCache = [k \in {} |-> EmptySchema]
    /\ inflight = EmptyBag
    /\ backend = BackendTables
    /\ pool = "null"
    /\ exitCode = <<>>

\* processQuery(nlText) on the processor.
TranslateCall ==
    /\ nlOutcome = NoTranslation
    /\ nlOutcome' = processQuery(JsString(nlText), nlSchema)
    /\ UNCHANGED <<config, lastIndex, vinput, vsql, voptions, vverdict, probe, calls,
                   nlInput, nlText, serverVars>>

NextTranslate == TranslateCall

SpecTranslate == InitTranslate /\ [][NextTranslate]_vars

(***************************************************************************)
(* Properties of validate (under SpecValidate).                            *)
(***************************************************************************)
Validated == vverdict # NoVerdict

\* The text is empty or holds white space only.
Blank(s) == \A i \in 1..Len(s) : Ch(s, i) \in WhiteSpace

InSeq(x, seq) == \E n \in DOMAIN seq : seq[n] = x

IsInjectionIssue(e) ==
    startsWith(e, "Potentially dangerous pattern detected: ") \/ e = MultipleStatementsIssue

\* An error that tells the caller to set confirmDestructive.
IsConfirmationError(e) ==
    /\ startsWith(e, "Destructive operation detected: ")
    /\ endsWith(e, "Set confirmDestructive=true to execute.")

IsDestructiveWarning(w) == startsWith(w, "Destructive operation: ")

\* The statement is classified destructive and no error of the verdict comes
\* from the injection scan.
DestructiveOnly ==
    /\ Validated
    /\ "isDestructive" \in DOMAIN vverdict
    /\ vverdict.isDestructive
    /\ \A n \in DOMAIN vverdict.errors : ~IsInjectionIssue(vverdict.errors[n])

\* C4: a destructive statement that triggers no injection-scan error is
\* rejected, with an error telling the caller to set confirmDestructive, exactly
\* when confirmDestructive and allowDestructiveQueries are both false; in every
\* other combination it is accepted with a destructive-operation warning.  With
\* destructive queries not allowed, DELETE FROM users WHERE id = 1 is rejected
\* unconfirmed and accepted with the warning when confirmed.
C4_DestructiveNeedsConfirmation ==
    /\ DestructiveOnly =>
        IF ~voptions.confirmDestructive /\ ~config.allowDestructiveQueries
        THEN /\ ~vverdict.valid
             /\ \E n \in DOMAIN vverdict.errors : IsConfirmationError(vverdict.errors[n])
             /\ \A n \in DOMAIN vverdict.warnings : ~IsDestructiveWarning(vverdict.warnings[n])
        ELSE /\ vverdict.valid
             /\ vverdict.errors = <<>>
             /\ \E n \in DOMAIN vverdict.warnings : IsDestructiveWarning(vverdict.warnings[n])
    /\ (Validated /\ vsql = "DELETE FROM users WHERE id = 1"
            /\ ~config.allowDestructiveQueries) =>
        /\ DestructiveOnly
        /\ vverdict.valid = voptions.confirmDestructive

\* The DELETE of the scenario was validated with confirmation and accepted
\* with the warning, destructive queries not being allowed.
C4_Witness ==
    /\ Validated
    /\ vsql = "DELETE FROM users WHERE id = 1"
    /\ ~config.allowDestructiveQueries
    /\ voptions.confirmDestructive
    /\ vverdict.valid
    /\ InSeq("Destructive operation: DELETE", vverdict.warnings)

\* Some ; of s is directly followed by a character that is no white space.
SemicolonBeforeText(s) ==
    \E i \in 1..(Len(s) - 1) : Ch(s, i) = ";" /\ ~IsSpace(Ch(s, i + 1))

IsText(c) == c # "" /\ c # ";" /\ ~IsSpace(c)

\* Some ; of s has text before it and text after it, text being any character
\* that is neither white space nor a ;.
SemicolonBetweenTexts(s) ==
    \E j \in 1..Len(s) :
        /\ Ch(s, j) = ";"
        /\ \E i \in 1..(j - 1) : IsText(Ch(s, i))
        /\ \E k \in (j + 1)..Len(s) : IsText(Ch(s, k))

\* C5, as claimed: every SQL text with a ; followed by non-white space is
\* rejected with the multiple-statements error.
C5_SemicolonThenTextRejected ==
    (Validated /\ SemicolonBeforeText(vsql)) =>
        ~vverdict.valid /\ InSeq(MultipleStatementsIssue, vverdict.errors)

\* C5, amended: every SQL text in which a ; stands between two texts (the split
\* on ; yields more than one statement that is not blank) is rejected with
\* the multiple-statements error, whatever else it holds and whatever
\* confirmDestructive is.
C5_StackedStatementsRejected ==
    (Validated /\ SemicolonBetweenTexts(vsql)) =>
        ~vverdict.valid /\ InSeq(MultipleStatementsIssue, vverdict.errors)

\* A confirmed text with a ; between two statements, no dangerous pattern in
\* it, was rejected for its multiple statements alone.
C5_Witness ==
    /\ Validated
    /\ SemicolonBetweenTexts(vsql)
    /\ voptions.confirmDestructive
    /\ ~vverdict.valid
    /\ vverdict.errors = <<MultipleStatementsIssue>>

\* C6: a verdict is accepted (valid) if and only if its errors list is empty,
\* whatever its warnings list holds.
C6_ValidIffNoErrors ==
    Validated => (vverdict.valid <=> vverdict.errors = <<>>)

\* A verdict with warnings and no error was accepted.
C6_Witness ==
    /\ Validated
    /\ vverdict.valid
    /\ vverdict.errors = <<>>
    /\ vverdict.warnings # <<>>

\* C7, as claimed: for a statement whose leading keyword is DELETE and that
\* holds no WHERE, the destructive-operation check reports isDestructive and
\* the operation "DELETE without WHERE clause".
C7_DeleteWithoutWhereReported ==
    (/\ Validated
     /\ startsWith(trim(toUpperCase(vsql)), "DELETE")
     /\ ~includes(toUpperCase(vsql), "WHERE")) =>
        checkDestructiveOperation(toUpperCase(vsql))
            = [isDestructive |-> TRUE, operation |-> "DELETE without WHERE clause"]

\* The score the text of an input is built to have: 10, and the weight of each
\* feature put into it.  The only feature in a text made of phrases is the
\* subquery that a phrase ending in ( makes with the next phrase that is not
\* blank, when that is a SELECT.
ExpectedScore(in) ==
    IF in.family = "phrases"
    THEN 10 + 15 * Cardinality({n \in 1..Len(in.phrases) :
                    /\ Phrases[in.phrases[n]] \in {"EXEC (", "execute("}
                    /\ \E m \in (n + 1)..Len(in.phrases) :
                        /\ Phrases[in.phrases[m]] = "SELECT * FROM users"
                        /\ \A k \in (n + 1)..(m - 1) : Blank(Phrases[in.phrases[k]])})
    ELSE 10 + 10 * in.joins + 15 * in.subqueries + 5 * in.aggregations
            + 10 * in.unions + 5 * in.likeWildcards

ThreeJoinsOneSubquery ==
    /\ vinput.family = "features"
    /\ vinput.joins = 3 /\ vinput.subqueries = 1 /\ vinput.aggregations = 0
    /\ vinput.unions = 0 /\ vinput.likeWildcards = 0 /\ ~vinput.decoys

\* C8, as claimed: for every SQL text that is not the empty string, validate
\* returns the complexity 10 + 10 per JOIN + 15 per subquery + 5 per
\* aggregation or GROUP BY + 10 per UNION + 5 per wildcard-prefixed LIKE.
C8_ScoreOfNonEmpty ==
    (Validated /\ vsql # "") =>
        "complexity" \in DOMAIN vverdict /\ vverdict.complexity = ExpectedScore(vinput)

\* C8, amended: the same for every SQL text that is neither empty nor white
\* space only; three JOINs and one subquery score 55.
C8_ScoreOfNonBlank ==
    /\ (Validated /\ Len(trim(vsql)) > 0) =>
        "complexity" \in DOMAIN vverdict /\ vverdict.complexity = ExpectedScore(vinput)
    /\ (Validated /\ ThreeJoinsOneSubquery) => vverdict.complexity = 55

\* The text with three JOINs and one subquery was validated and scored 55.
C8_Witness ==
    Validated /\ ThreeJoinsOneSubquery /\ vverdict.complexity = 55

\* C11: an empty or white-space-only SQL text is rejected at once: the verdict
\* is valid = false with the one error 'Query cannot be empty' and no warning,
\* it carries neither isDestructive nor complexity, and no dangerous pattern
\* was tested (every lastIndex is as the constructor left it).
C11_EmptyQueryRejected ==
    (Validated /\ Blank(vsql)) =>
        /\ vverdict = [valid |-> FALSE, errors |-> <<"Query cannot be empty">>,
                       warnings |-> <<>>]
        /\ lastIndex = NewLastIndex

\* A text of white space only was validated and refused as empty.
C11_Witness ==
    /\ Validated
    /\ Len(vsql) > 1
    /\ Blank(vsql)
    /\ \E i \in 1..Len(vsql) : Ch(vsql, i) = "\t"
    /\ ~vverdict.valid
    /\ vverdict.errors = <<"Query cannot be empty">>
    /\ DOMAIN vverdict = {"valid", "errors", "warnings"}

(***************************************************************************)
(* Properties of processQuery (under SpecTranslate).                       *)
(***************************************************************************)
Translated == nlOutcome # NoTranslation

\* The text as processQuery normalizes it.
Normalized == toLowerCase(trim(nlText))

\* The table the generated SQL names: the word after INSERT INTO or UPDATE,
\* or the word after its FROM ("" without).
FromTable(sql) ==
    LET After(p) == IF p = 0 THEN "" ELSE WordFrom(sql, p + Len(" FROM "))
    IN  IF startsWith(sql, "INSERT INTO ") THEN WordFrom(sql, Len("INSERT INTO ") + 1)
        ELSE IF startsWith(sql, "UPDATE ") THEN WordFrom(sql, Len("UPDATE ") + 1)
        ELSE After(IndexOf(sql, " FROM ", 1))

\* The column list of a generated SELECT: what stands between SELECT and FROM.
SelectList(sql) == Sub(sql, Len("SELECT ") + 1, IndexOf(sql, " FROM ", 1) - 1)

\* The WHERE clause of the generated SQL: what stands between WHERE and the
\* next clause ("" without a WHERE).
WhereClauseOf(sql) ==
    LET Upto(from, stops) ==
            Sub(sql, from, IF stops = {} THEN Len(sql) ELSE Min(stops) - 1)
        After(w) ==
            IF w = 0 THEN ""
            ELSE Upto(w + Len(" WHERE "),
                      {k \in w..Len(sql) : \/ LitAt(sql, k, " GROUP BY ")
                                           \/ LitAt(sql, k, " ORDER BY ")
                                           \/ LitAt(sql, k, " LIMIT ")})
    IN  After(IndexOf(sql, " WHERE ", 1))

\* The word each tail puts after a from or an in ("" for a tail without).
CuedByPreposition ==
    [t \in Tails |->
        CASE t \in {"from users", "from users last 30 days",
                    "from users today last 7 days",
                    "from users where status is not open",
                    "from users where name not equals bob",
                    "from users where id != 5", "from users where id <> 5"} -> "users"
          [] t \in {"in orders", "from orders group by status",
                    "from orders where status is open last 7 days"} -> "orders"
          [] t = "from customers" -> "customers"
          [] t = "created in the last 7 days" -> "the"
          [] OTHER -> ""]

\* The word that follows the show, get, find or list of the verb ("" for a
\* verb without): the first word of the noun, or the me of "Show me all".
CuedByVerb(verb, noun) ==
    IF verb \in {"show all", "show", "get", "find", "list"}
    THEN WordFrom(toLowerCase(noun), 1)
    ELSE IF verb = "Show me all" THEN "me"
    ELSE ""

\* The table reference of the text: the word after its preposition cue if it
\* has one, else the word after its verb cue ("" without either).
TableToken(in) ==
    IF CuedByPreposition[in.tail] # "" THEN CuedByPreposition[in.tail]
    ELSE CuedByVerb(in.verb, in.noun)

FailedToIdentifyTable ==
    "Failed to process natural language query: Could not identify table name in query"

\* C12: every text whose normalized form starts with "count" or "how many" is
\* translated, with the operation kind COUNT and an SQL text that holds
\* COUNT(*).
C12_CountInputsYieldCount ==
    (Translated /\ (startsWith(Normalized, "count") \/ startsWith(Normalized, "how many"))) =>
        /\ nlOutcome.ok
        /\ nlOutcome.type = "COUNT"
        /\ includes(nlOutcome.sql, "COUNT(*)")

\* C13: a translated SELECT against a table of the schema lists only columns
\* of that table (or *).
C13_SelectColumnsAreSchemaColumns ==
    (Translated /\ nlOutcome.ok /\ nlOutcome.type = "SELECT"
        /\ FromTable(nlOutcome.sql) \in DOMAIN nlSchema) =>
        \/ SelectList(nlOutcome.sql) = "*"
        \/ \A column \in {trim(c) : c \in {split(SelectList(nlOutcome.sql), ",")[n] :
                                n \in DOMAIN split(SelectList(nlOutcome.sql), ",")}} :
                InSeq(column, nlSchema[FromTable(nlOutcome.sql)])

\* No form of the table reference t is a table of the schema.
UnknownTable(t, schema) ==
    /\ t \notin DOMAIN schema
    /\ (t \o "s") \notin DOMAIN schema
    /\ ~(endsWith(t, "s") /\ Sub(t, 1, Len(t) - 1) \in DOMAIN schema)

\* C14, as claimed: the translation fails, without SQL, whenever the table
\* reference of the text is no table of the schema under its exact, plural or
\* singular form.
C14_UnknownTableFails ==
    (Translated /\ TableToken(nlInput) # "" /\ UnknownTable(TableToken(nlInput), nlSchema)) =>
        ~nlOutcome.ok /\ nlOutcome.sql = ""

\* C14, amended: the translation of a text fails, without SQL and with 'Could
\* not identify table name in query', exactly when the text holds no table
\* reference; a reference that is no table of the schema under any of its
\* forms is no failure: the SQL names the literal word.
C14_FailsOnlyWithoutTableReference ==
    Translated =>
        /\ nlOutcome.ok = (TableToken(nlInput) # "")
        /\ ~nlOutcome.ok => nlOutcome.sql = "" /\ nlOutcome.error = FailedToIdentifyTable
        /\ (nlOutcome.ok /\ UnknownTable(TableToken(nlInput), nlSchema)) =>
                FromTable(nlOutcome.sql) = TableToken(nlInput)

\* "show all customers" was translated against the tables users and orders.
C14_Witness ==
    /\ Translated
    /\ nlText = "show all customers"
    /\ nlSchema = BackendTables
    /\ UnknownTable(TableToken(nlInput), nlSchema)
    /\ nlOutcome.ok
    /\ nlOutcome.sql = "SELECT * FROM customers"

\* C15, as claimed: the forms are tried in the order t, t+'s', t without its
\* final 's'.
ClaimedTable(t, schema) ==
    IF t \in DOMAIN schema THEN t
    ELSE IF (t \o "s") \in DOMAIN schema THEN t \o "s"
    ELSE IF endsWith(t, "s") /\ Sub(t, 1, Len(t) - 1) \in DOMAIN schema
    THEN Sub(t, 1, Len(t) - 1)
    ELSE t

\* C15, as claimed: the table of the SQL is the first of t, t+'s' and t
\* without its final 's' that the schema has, t itself if it has none, for
\* the word t after the preposition cue if there is one and else after the
\* verb cue.
C15_ResolutionOrder ==
    (Translated /\ TableToken(nlInput) # "") =>
        /\ nlOutcome.ok
        /\ FromTable(nlOutcome.sql) = ClaimedTable(TableToken(nlInput), nlSchema)

\* The forms the code tries: t+'s' only for a t that does not end in s.
VariedTable(t, schema) ==
    IF t \in DOMAIN schema THEN t
    ELSE IF ~endsWith(t, "s") /\ (t \o "s") \in DOMAIN schema THEN t \o "s"
    ELSE IF endsWith(t, "s") /\ Sub(t, 1, Len(t) - 1) \in DOMAIN schema
    THEN Sub(t, 1, Len(t) - 1)
    ELSE t

\* C15, amended: the table of the SQL is t if the schema has it; else, for a t
\* that does not end in s, t+'s' if the schema has it; else, for a t that ends
\* in s, t without that s if the schema has it; else t itself, without a
\* failure.  t is the word after the preposition cue if the text has one and
\* else the word after the verb cue.
C15_ResolutionByEnding ==
    (Translated /\ TableToken(nlInput) # "") =>
        /\ nlOutcome.ok
        /\ FromTable(nlOutcome.sql) = VariedTable(TableToken(nlInput), nlSchema)

\* "show all user" was translated against the tables users and orders, or
\* "list orders from customers" was: there the word after from decides and is
\* left as it is.
C15_Witness ==
    /\ Translated
    /\ nlOutcome.ok
    /\ \/ /\ nlText = "show all user"
          /\ nlSchema = BackendTables
          /\ FromTable(nlOutcome.sql) = "users"
       \/ /\ nlText = "list orders from customers"
          /\ nlSchema = BackendTables
          /\ FromTable(nlOutcome.sql) = "customers"

\* C16, as claimed: for every table T of the schema, "show all T" is
\* translated to a SELECT with exactly the SQL SELECT * FROM T.
C16_ShowAllAnyTable ==
    (Translated /\ nlInput.verb = "show all" /\ nlInput.tail = ""
        /\ nlInput.noun \in DOMAIN nlSchema) =>
        /\ nlOutcome.ok
        /\ nlOutcome.type = "SELECT"
        /\ nlOutcome.sql = "SELECT * FROM " \o nlInput.noun

\* The name is one word of lower-case letters, digits and _ that holds the
\* word of no time filter.
PlainName(name) ==
    /\ name # ""
    /\ \A i \in 1..Len(name) :
            Ch(name, i) \in CharSet(LowerLetters) \cup CharSet(Digits) \cup {"_"}
    /\ ~includes(name, "today")
    /\ ~includes(name, "yesterday")

\* C16, amended: for every table T of the schema whose name is one word of
\* lower-case letters, digits and underscores and holds neither "today" nor
\* "yesterday", "show all T" is translated to a SELECT with exactly the SQL
\* SELECT * FROM T.
C16_ShowAllPlainTable ==
    (Translated /\ nlInput.verb = "show all" /\ nlInput.tail = ""
        /\ nlInput.noun \in DOMAIN nlSchema /\ PlainName(nlInput.noun)) =>
        /\ nlOutcome.ok
        /\ nlOutcome.type = "SELECT"
        /\ nlOutcome.sql = "SELECT * FROM " \o nlInput.noun

\* "show all users" was translated against a schema with the table users.
C16_Witness ==
    /\ Translated
    /\ nlText = "show all users"
    /\ "users" \in DOMAIN nlSchema
    /\ nlOutcome.type = "SELECT"
    /\ nlOutcome.sql = "SELECT * FROM users"

\* C17: for a table T of the schema, "Show me all T" is translated to a SELECT
\* whose FROM table is T.
C17_ShowMeAllSelectsFromTable ==
    (Translated /\ nlInput.verb = "Show me all" /\ nlInput.tail = ""
        /\ nlInput.noun \in DOMAIN nlSchema) =>
        /\ nlOutcome.ok
        /\ nlOutcome.type = "SELECT"
        /\ FromTable(nlOutcome.sql) = nlInput.noun

\* C18: a COUNT text that names a table T of the schema and is grouped by the
\* column status is translated to SELECT status, COUNT(*) as count FROM T
\* GROUP BY status; so is "Count orders grouped by status" with T = orders.
C18_CountGroupedByColumn ==
    (Translated /\ nlInput.verb \in {"Count", "how many"}
        /\ nlInput.noun \in DOMAIN nlSchema /\ nlInput.tail = "grouped by status") =>
        /\ nlOutcome.ok
        /\ nlOutcome.sql = "SELECT status, COUNT(*) as count FROM " \o nlInput.noun
                            \o " GROUP BY status"

\* The N of the first "last N days" each tail holds ("" for a tail without).
DaysOf ==
    [t \in Tails |->
        CASE t \in {"created in the last 7 days", "from users today last 7 days",
                    "from orders where status is open last 7 days"} -> "7"
          [] t = "from users last 30 days" -> "30"
          [] t = "for the last 2 days" -> "2"
          [] OTHER -> ""]

DaysClause(days) == "created_at >= NOW() - INTERVAL '" \o days \o " days'"

\* The text is a SELECT or COUNT input with a "last N days" and no where.
LastDaysInput(in) ==
    /\ in.verb \in {"show all", "Show me all", "show", "get", "find", "list", "Count",
                    "how many", "recount"}
    /\ DaysOf[in.tail] # ""
    /\ ~includes(in.tail, "where")

KindOf(text) ==
    LET StartsWithOneOf(cues) == \E cue \in cues : startsWith(text, cue)
    IN  IF StartsWithOneOf({"count", "how many"}) THEN "COUNT"
        ELSE IF StartsWithOneOf({"add", "insert", "create"}) THEN "INSERT"
        ELSE IF StartsWithOneOf({"update", "change", "modify"}) THEN "UPDATE"
        ELSE IF StartsWithOneOf({"delete", "remove"}) THEN "DELETE"
        ELSE "SELECT"

CouldNotDetermineQueryType ==
    "Failed to process natural language query: "
    \o "Could not determine query type. Please rephrase your query."

\* C25: the detection of the kind is total and ordered.  Every normalized
\* text is given the one kind its start asks for, SELECT when it starts with
\* no cue; a text that starts with "count" or "how many" is never a SELECT;
\* a translation carries the kind detected and none fails with 'Could not
\* determine query type'.
C25_DetectionTotalAndOrdered ==
    Translated =>
        /\ detectQueryType(Normalized) = KindOf(Normalized)
        /\ (startsWith(Normalized, "count") \/ startsWith(Normalized, "how many")) =>
                detectQueryType(Normalized) # "SELECT"
        /\ nlOutcome.ok => nlOutcome.type = KindOf(Normalized)
        /\ ~nlOutcome.ok => nlOutcome.error # CouldNotDetermineQueryType

\* "recount orders from users", which holds a cue but does not start with
\* one, was translated as a SELECT.
C25_Witness ==
    /\ Translated
    /\ nlText = "recount orders from users"
    /\ nlOutcome.ok
    /\ nlOutcome.type = "SELECT"
    /\ nlOutcome.sql = "SELECT * FROM users"

\* The predicate the condition of each tail with a not-equals cue is to be
\* lowered to ("" for a tail without).
NotEqualsOf ==
    [t \in Tails |->
        CASE t = "from users where status is not open" -> "status != 'open'"
          [] t = "from users where name not equals bob" -> "name != 'bob'"
          [] t \in {"from users where id != 5", "from users where id <> 5"} -> "id != '5'"
          [] OTHER -> ""]

\* C27: a WHERE condition with a not-equals cue ("X is not Y", "X not equals
\* Y", "X != Y", "X <> Y") is lowered to the predicate X != 'Y', never to an
\* = predicate.
C27_NotEqualsLowered ==
    (Translated /\ nlOutcome.ok /\ nlOutcome.type # "INSERT"
        /\ NotEqualsOf[nlInput.tail] # "") =>
        /\ WhereClauseOf(nlOutcome.sql) = NotEqualsOf[nlInput.tail]
        /\ ~includes(WhereClauseOf(nlOutcome.sql), " = ")

(***************************************************************************)
(* Properties of repeated validate calls (under SpecRepeat).               *)
(***************************************************************************)

\* C10: validate has no hidden state.  Whenever validate is called with the
\* sql and the options of an earlier call on the same QueryValidator, the
\* configuration unchanged, it returns the verdict of the earlier call: the
\* same valid, errors, warnings, isDestructive and complexity, whatever
\* calls came in between.
C10_SameInputSameVerdict ==
    (probe # NoProbe /\ probe.sql = vsql /\ probe.options = voptions) =>
        vverdict = probe.verdict

\* The first call and the third had the same text, one with a dangerous
\* pattern in it, and the same options, and returned the same verdict.
C10_Witness ==
    /\ probe.call = 1
    /\ calls = 3
    /\ probe.sql = vsql
    /\ vsql = "SELECT 1; DROP TABLE users"
    /\ probe.options = voptions
    /\ vverdict = probe.verdict
    /\ InSeq("Potentially dangerous pattern detected: ;\\s*DROP", vverdict.errors)

(***************************************************************************)
(* Properties of the server (under Spec).                                  *)
(***************************************************************************)
Requests == BagToSet(inflight)

\* The request went through validate.
WasValidated(req) == req.validation # NoVerdict

RunsSql(req) == req.tool \in {"query_database", "execute_sql"}

\* C1: a query_database or execute_sql request whose verdict has errors
\* (valid = false) never has a statement handed to executeQuery, and ends
\* with an error response.
C1_RejectedNeverExecuted ==
    \A req \in Requests :
        (RunsSql(req) /\ WasValidated(req) /\ ~req.validation.valid) =>
            /\ Len(req.validation.errors) > 0
            /\ req.sent = {}
            /\ req.pc = "responded"
            /\ req.response.isError

\* The DELETE the translator made of "delete from users" was refused
\* unconfirmed: nothing was sent to the driver and the response is an error.
C1_Witness ==
    \E req \in Requests :
        /\ req.tool = "query_database"
        /\ req.translation.sql = "DELETE FROM users"
        /\ WasValidated(req)
        /\ ~req.validation.valid
        /\ req.sent = {}
        /\ req.response.isError
        /\ startsWith(req.response.text, "Query validation failed:\n")

\* processQuery rejected for the request.
TranslationFailed(req) ==
    /\ req.tool = "query_database"
    /\ req.translation # NoTranslation
    /\ ~req.translation.ok

\* C2: a query_database request whose translation failed is never passed to
\* validate nor to executeQuery, and the response it gets is an error
\* response that carries the message of the failure.
C2_FailedTranslationIsAnError ==
    \A req \in Requests :
        TranslationFailed(req) =>
            /\ ~WasValidated(req)
            /\ req.sent = {}
            /\ req.pc \in {"translated", "responded"}
            /\ req.pc = "responded" =>
                    /\ req.response.isError
                    /\ req.response.text = "Error: " \o req.translation.error

\* "count orders", in which no table is found, was answered with the error.
C2_Witness ==
    \E req \in Requests :
        /\ TranslationFailed(req)
        /\ req.args.query = JsString("count orders")
        /\ req.pc = "responded"
        /\ req.response.isError
        /\ req.response.text =
                "Error: Failed to process natural language query: "
                \o "Could not identify table name in query"

\* C3, as claimed: every statement handed to a driver for a request of a
\* caller is the text validate was given for that request and accepted.
C3_EveryStatementValidated ==
    \A req \in Requests :
        \A statement \in req.sent :
            /\ WasValidated(req)
            /\ req.validation.valid
            /\ statement.text = RequestSql(req)

\* The options a handler passes to validate.
OptionsOf(req) ==
    [confirmDestructive |->
        req.tool # "validate_query" /\ req.args.confirm_destructive]

\* The limits validate is compared under: those the server runs with, and 0,
\* which every score exceeds.
Limits == MaxQueryComplexityValues \cup {0}

\* The texts the handlers pass to validate: the SQL of the callers, and what
\* the translator makes of their queries.
ValidatedTexts ==
    SqlInputs
    \cup {processQuery(q, BackendTables).sql : q \in NaturalLanguageInputs}

\* Whether a fresh validator accepts a text, for each text, each
\* confirmDestructive, each allowDestructiveQueries and each limit.
AcceptedUnder ==
    [sql \in ValidatedTexts, confirm \in BOOLEAN, allow \in BOOLEAN, limit \in Limits |->
        validate(sql, [confirmDestructive |-> confirm],
                 [allowDestructiveQueries |-> allow, maxQueryComplexity |-> limit],
                 NewLastIndex).valid]

\* C9: the limit of the complexity never decides.  Whether validate accepted
\* the text of a request is what it would be under any other limit, and
\* query_database and execute_sql hand the text to executeQuery exactly when
\* it is accepted under each.
C9_ThresholdNeverBlocks ==
    \A req \in Requests :
        WasValidated(req) =>
            \A limit \in Limits :
                /\ req.validation.valid =
                        AcceptedUnder[RequestSql(req), OptionsOf(req).confirmDestructive,
                                      config.allowDestructiveQueries, limit]
                /\ RunsSql(req) => ((req.sent # {}) = req.validation.valid)

\* A JOIN that scores 20 against a limit of 15 was accepted with the warning
\* and handed to executeQuery.
C9_Witness ==
    \E req \in Requests :
        /\ req.tool = "execute_sql"
        /\ config.maxQueryComplexity = 15
        /\ WasValidated(req)
        /\ req.validation.valid
        /\ req.validation.complexity = 20
        /\ InSeq(ComplexityWarning(20, 15), req.validation.warnings)
        /\ req.sent = {ExecuteStatement(config.type, req.args.sql, <<>>)}

\* C28: an INSERT the translator produced is never executed through
\* query_database.  The placeholder statement generated for a text classified
\* INSERT is rejected by validate, whatever confirm_destructive and
\* allowDestructiveQueries are, and nothing is handed to executeQuery.
C28_GeneratedInsertNeverExecuted ==
    \A req \in Requests :
        (req.tool = "query_database" /\ req.translation.ok
            /\ req.translation.type = "INSERT") =>
            /\ req.sent = {}
            /\ req.pc \in {"translated", "responded"}
            /\ WasValidated(req) =>
                    /\ ~req.validation.valid
                    /\ req.response.isError

\* "add a user into users" was sent with confirm_destructive to a server that
\* allows destructive queries, and was refused for the comment in the
\* placeholder.
C28_Witness ==
    \E req \in Requests :
        /\ req.tool = "query_database"
        /\ req.args.query = JsString("add a user into users")
        /\ req.args.confirm_destructive
        /\ config.allowDestructiveQueries
        /\ req.translation.type = "INSERT"
        /\ req.translation.sql =
                "INSERT INTO users (columns) VALUES (values) "
                \o "-- Requires column and value specification"
        /\ req.pc = "responded"
        /\ req.sent = {}
        /\ InSeq("Potentially dangerous pattern detected: --", req.validation.errors)
        /\ req.response.isError

(***************************************************************************)
(* Properties of the schema cache (under SpecSchema).                      *)
(***************************************************************************)

\* The get_schema requests whose key the cache holds and whose handler has
\* not begun.
AwaitingCachedSchema ==
    {req \in Requests : /\ req.tool = "get_schema"
                        /\ req.pc = "received"
                        /\ cacheKey(req.args.table_name) \in DOMAIN schemaCache}

\* C20: with caching enabled, once the cache holds a description for a key no
\* step removes or replaces it, whatever happens to the database; and a
\* getSchema call for that key sends no statement to the driver and returns
\* the description the cache holds.
C20_CachedEntryNeverReplaced ==
    [][config.enableSchemaCache =>
        /\ \A k \in DOMAIN schemaCache :
                k \in DOMAIN schemaCache' /\ schemaCache'[k] = schemaCache[k]
        /\ \A req \in AwaitingCachedSchema :
                \A next \in BagToSet(inflight') \ BagToSet(inflight) :
                    (next.tool = "get_schema" /\ next.args = req.args
                        /\ next.pc # "received") =>
                        /\ next.pc = "responded"
                        /\ next.sent = {}
                        /\ next.response.schema = schemaCache[cacheKey(req.args.table_name)]
      ]_vars

\* How many requests in flight await the driver's answer to the catalog
\* queries of getSchema for a key.
Introspecting(key) ==
    LET Awaits(req) ==
            /\ req.tool = "get_schema"
            /\ req.pc = "introspecting"
            /\ cacheKey(req.args.table_name) = key
    IN  BagCardinality([req \in {r \in Requests : Awaits(r)} |-> inflight[req]])

\* C21: the cache is populated once per key.  With caching enabled, no two
\* getSchema calls for the same key are sent to the backend together (the
\* backend is introspected at most once for a key that was absent when they
\* started), and no entry of the cache is overwritten by a call that
\* finishes later.
C21_IntrospectedOncePerKey ==
    [][config.enableSchemaCache =>
        /\ \A req \in Requests :
                req.tool = "get_schema" =>
                    Introspecting(cacheKey(req.args.table_name)) <= 1
        /\ \A k \in DOMAIN schemaCache : schemaCache'[k] = schemaCache[k]
      ]_vars

\* What the step has made of the get_schema request req, when it is the
\* request the step has moved on.
SchemaMovedOn(req) ==
    IF CopiesIn(req, inflight') < CopiesIn(req, inflight)
    THEN {next \in BagToSet(inflight') :
            /\ next.tool = "get_schema"
            /\ next.args = req.args
            /\ CopiesIn(next, inflight') > CopiesIn(next, inflight)}
    ELSE {}

\* C29: a getSchema call whose introspection fails throws the error of the
\* driver on to its caller and leaves the cache as it was, with no entry
\* added or changed for its key; a call that succeeds returns the schema it
\* read.  A later call for a key the cache does not hold introspects the
\* backend again.
C29_FailedIntrospectionLeavesCache ==
    [][\A req \in Requests :
            /\ (req.tool = "get_schema" /\ req.pc = "introspecting") =>
                    \A next \in SchemaMovedOn(req) :
                        IF next.response.isError
                        THEN /\ next.response.text = "Error: driver error"
                             /\ schemaCache' = schemaCache
                        ELSE next.response =
                                GetSchemaResponse(req.args.table_name,
                                    SchemaResult(config.type, req.args.table_name, backend))
            /\ (req.tool = "get_schema" /\ req.pc = "received"
                    /\ cacheKey(req.args.table_name) \notin DOMAIN schemaCache) =>
                    \A next \in SchemaMovedOn(req) :
                        next.pc = "introspecting" /\ next.sent # {}
      ]_vars

\* With caching on, a getSchema call for the table users was answered with
\* the error of the driver, the cache holds no entry for users, and another
\* call for users is with the driver.
C29_Witness ==
    /\ config.enableSchemaCache
    /\ "users" \notin DOMAIN schemaCache
    /\ \E failed \in Requests, later \in Requests :
        /\ failed.tool = "get_schema" /\ later.tool = "get_schema"
        /\ failed.args.table_name = JsString("users")
        /\ later.args = failed.args
        /\ failed.pc = "responded"
        /\ failed.response = ErrorResponse("driver error")
        /\ later.pc = "introspecting"
        /\ later.sent # {}

(***************************************************************************)
(* Properties of the life of the process (under SpecLifecycle).            *)
(***************************************************************************)

\* C22: startup is ordered and fails fast.  The pool or handle is created
\* once, from the constructed server and only under settings validateConfig
\* passes; the schema is loaded only once connected and the transport is
\* connected only once the schema is loaded and the translator built on it;
\* requests are served only with the transport connected.  When
\* validateConfig, connect or the first getSchema fails, the process exits
\* with status 1 from where it stood: nothing is retried, the transport was
\* never connected and no request was served; and nothing happens after the
\* exit.
C22_StartupOrderedFailFast ==
    [][/\ (pool' = "open" /\ pool # "open") =>
                /\ phase = "constructed" /\ pool = "null"
                /\ validateConfig(config) = <<>>
       /\ (phase' = "connected" /\ phase # "connected") =>
                phase \in {"constructed", "connecting"} /\ pool' = "open"
       /\ (phase' = "initialized" /\ phase # "initialized") =>
                /\ phase = "connected"
                /\ nlSchema' = SchemaResult(config.type, JsUndefined, backend)
       /\ (phase' = "running" /\ phase # "running") =>
                phase = "initialized" /\ pool = "open"
       /\ inflight' # inflight => phase = "running"
       /\ (phase = "constructed" /\ validateConfig(config) # <<>>) =>
                phase' = "exited" /\ pool' = "null"
       /\ (exitCode' = <<1>> /\ exitCode # <<1>>) =>
                /\ phase \in {"constructed", "connecting", "connected"}
                /\ phase' = "exited"
                /\ inflight = EmptyBag /\ inflight' = EmptyBag
       /\ exitCode # <<>> => UNCHANGED vars
      ]_vars

\* The pool was created and the process has exited with status 1: the test
\* connection or the load of the schema failed.
C22_Witness ==
    /\ phase = "exited"
    /\ exitCode = <<1>>
    /\ config.type = "postgres"
    /\ pool = "open"
    /\ nlSchema = EmptySchema
    /\ inflight = EmptyBag

\* C23: on every path by which the process exits after a pool or a
\* database handle was created, close has released it before the exit.
C23_PoolReleasedBeforeExit ==
    exitCode # <<>> => pool # "open"

(***************************************************************************)
(* Properties of executeQuery (under SpecExecute).                         *)
(***************************************************************************)

\* A handler awaits executeQuery.
AwaitingDriver == \E req \in Requests : req.pc \in {"executing", "unanswered"}

\* C24: every executeQuery call completes.  A handler that awaits
\* executeQuery is eventually resumed, with the result, with the error of
\* the driver, or with a timeout error once query_timeout has passed.
C24_ExecutionCompletes == AwaitingDriver ~> ~AwaitingDriver

(***************************************************************************)
(* Properties of executeSQLiteQuery (under Spec).                          *)
(***************************************************************************)

\* The first characters of the text that are no white space are the letters
\* of SELECT, in either case.
SelectText(text) ==
    \E k \in 1..Len(text) :
        /\ Blank(Sub(text, 1, k - 1))
        /\ toUpperCase(Sub(text, k, k + 5)) = "SELECT"

ValidateQueryHandled(req) ==
    IF req.tool = "validate_query" /\ req.pc = "received"
        /\ CopiesIn(req, inflight') < CopiesIn(req, inflight)
    THEN {next \in BagToSet(inflight') :
            /\ next.args = req.args
            /\ next.tool = req.tool
            /\ CopiesIn(next, inflight') > CopiesIn(next, inflight)}
    ELSE {}

\* The verdict validate returns for the text without a confirmation, as the
\* claim gives it: a DELETE, DROP or other destructive statement is an error
\* unless the configuration allows destructive queries.
VerdictLine(validation) ==
    "Valid: " \o (IF validation.valid THEN "true" ELSE "false") \o "\n"

\* C30: validate_query has no effect.  Handling it hands no statement to
\* the driver, leaves the schema cache, the translator's schema, the pool and
\* the state of the validator as they were, validates the text with
\* confirmDestructive false whatever the arguments hold, and answers with
\* the verdict in a response that is no error.
C30_ValidateQueryHasNoEffect ==
    [][\A req \in Requests :
            \A next \in ValidateQueryHandled(req) :
                /\ UNCHANGED <<schemaCache, nlSchema, backend, pool, phase, exitCode, lastIndex>>
                /\ next.pc = "responded"
                /\ next.sent = {}
                /\ ~next.response.isError
                /\ next.validation =
                        validate(req.args.sql, [confirmDestructive |-> FALSE], config,
                                 lastIndex)
                /\ includes(next.response.text, VerdictLine(next.validation))
                /\ \A n \in DOMAIN next.validation.errors :
                        includes(next.response.text, next.validation.errors[n])
                /\ \A n \in DOMAIN next.validation.warnings :
                        includes(next.response.text, next.validation.warnings[n])
      ]_vars

\* A DELETE sent to validate_query with confirm_destructive true, on a server
\* that does not allow destructive queries, was reported as invalid for want
\* of a confirmation, in a response that is no error.
C30_Witness ==
    \E req \in Requests :
        /\ req.tool = "validate_query"
        /\ req.args.sql = "DELETE FROM users WHERE id = 1"
        /\ req.args.confirm_destructive
        /\ ~config.allowDestructiveQueries
        /\ req.pc = "responded"
        /\ ~req.response.isError
        /\ ~req.validation.valid
        /\ req.validation.isDestructive
        /\ includes(req.response.text, "Valid: false\nDestructive: true\n")
        /\ req.sent = {}
        /\ pool = "open"

====
